---- MODULE Spec2Model ----
(***************************************************************************)
(* Authentication core of the habit tracker: the session store and the     *)
(* credential hasher (utils/auth.ts) and the Cloudflare Access assertion   *)
(* validator (utils/access.ts).                                            *)
(*                                                                         *)
(* Text is modelled as a sequence of one-character strings, so that the    *)
(* byte-wise comparison SQLite applies to TEXT values, String.split, the   *)
(* /.{2}/g match and the hex encoding are computed, not assumed.           *)
(*                                                                         *)
(* Time: `clock` counts whole seconds since the Unix epoch; Date.now() is  *)
(* 1000 * clock, so every millisecond quantity of the source is carried    *)
(* in seconds and the millisecond field of an ISO string is "000".         *)
(***************************************************************************)
EXTENDS Integers, Sequences, FiniteSets, TLC

VARIABLES
    clock,        \* wall clock, seconds since 1970-01-01T00:00:00Z
    users,        \* table users: id -> [username, password_hash]
    sessions,     \* table sessions: id (token) -> [user_id, expires_at]
    issued,       \* history: the log of createSession, [token, at, user] per call
    revoked,      \* history: tokens that were passed to deleteSession
    last,         \* the last operation of the session store and what it returned
    ticks,        \* number of clock advances so far
    stored,       \* one credential representation (a password_hash value)
    storedBy,     \* history: how `stored` was produced, and from which secret
    verdict,      \* the last verifyPassword call on `stored` and its outcome
    cachedKeys,   \* access.ts module state: the cached key set, or null
    cacheExpiry,  \* access.ts module state: when the cached key set goes stale
    published,    \* the key set the issuer's certs endpoint serves now
    calls,        \* the validateAccessJWT calls: position and locals of each
    lastFetch,    \* history: the last fetch that completed, and its call's start
    habits,       \* table habits: id -> [user_id, name, sort_order]
    habit_logs,   \* table habit_logs: the set of [habit_id, date] rows
    nextHabitId,  \* AUTOINCREMENT of habits.id
    resp,         \* the last HTTP request and the response it got
    toggles,      \* the toggle requests in progress: position and locals of each
    cal           \* the calendar last shown: month, loaded date range, day cells

sessVars == <<clock, users, sessions, issued, revoked, last, ticks>>
hashVars == <<stored, storedBy, verdict>>
accVars == <<cachedKeys, cacheExpiry, published, calls, lastFetch>>
appVars == <<habits, habit_logs, nextHabitId, resp, toggles>>
calVars == <<cal>>

(***************************************************************************)
(* Bounds of the model.                                                    *)
(***************************************************************************)
\* number of distinct values the 32-byte random token takes in the model
NumTokens == 2
\* number of clock advances in one behaviour
MaxTicks == 2
\* the clock at the start: 2024-01-01T10:00:00Z
StartTime == 1704103200
\* longest arbitrary text tried as a stored credential representation
MaxRawLen == 3
\* in how many fields an assertion may deviate from a valid one
MaxFaults == 1

(***************************************************************************)
(* Characters and text.                                                    *)
(***************************************************************************)
Digits == <<"0", "1", "2", "3", "4", "5", "6", "7", "8", "9">>
HexDigits == Digits \o <<"a", "b", "c", "d", "e", "f">>

\* index (from 0) of character c in the sequence s of characters, -1 if absent
IndexOf(s, c) ==
    IF \E i \in 1..Len(s) : s[i] = c
    THEN (CHOOSE i \in 1..Len(s) : s[i] = c) - 1
    ELSE -1

\* the code unit of a character (ASCII), as memcmp and charCodeAt see it
Ord(c) ==
    CASE IndexOf(Digits, c) >= 0 -> 48 + IndexOf(Digits, c)
      [] IndexOf(HexDigits, c) >= 10 -> 87 + IndexOf(HexDigits, c)
      [] c = " " -> 32
      [] c = "-" -> 45
      [] c = "." -> 46
      [] c = ":" -> 58
      [] c = "T" -> 84
      [] c = "Z" -> 90
      [] c = "g" -> 103
      [] c = "z" -> 122
      [] OTHER -> 63

\* SQLite's comparison of two TEXT values under the BINARY collation:
\* memcmp over the common prefix, then the shorter string is the smaller
RECURSIVE StrLess(_, _)
StrLess(a, b) ==
    IF b = <<>> THEN FALSE
    ELSE IF a = <<>> THEN TRUE
    ELSE IF Ord(Head(a)) # Ord(Head(b)) THEN Ord(Head(a)) < Ord(Head(b))
    ELSE StrLess(Tail(a), Tail(b))

\* decimal digits of n, zero-padded on the left to `width` characters
RECURSIVE Pad(_, _)
Pad(n, width) ==
    IF width = 0 THEN <<>>
    ELSE Pad(n \div 10, width - 1) \o <<Digits[(n % 10) + 1]>>

(***************************************************************************)
(* Calendar fields of an instant (UTC), as Date.prototype.toISOString and  *)
(* SQLite's datetime() extract them: proleptic Gregorian calendar.         *)
(***************************************************************************)
SecondsPerDay == 24 * 60 * 60

CivilFromDays(days) ==
    LET z == days + 719468
        era == z \div 146097
        doe == z - era * 146097
        yoe == (doe - doe \div 1460 + doe \div 36524 - doe \div 146096) \div 365
        doy == doe - (365 * yoe + yoe \div 4 - yoe \div 100)
        mp == (5 * doy + 2) \div 153
        d == doy - (153 * mp + 2) \div 5 + 1
        m == IF mp < 10 THEN mp + 3 ELSE mp - 9
        y == yoe + era * 400 + (IF m <= 2 THEN 1 ELSE 0)
    IN  [year |-> y, month |-> m, day |-> d]

DateText(t) ==
    LET c == CivilFromDays(t \div SecondsPerDay)
    IN  Pad(c.year, 4) \o <<"-">> \o Pad(c.month, 2) \o <<"-">> \o Pad(c.day, 2)

TimeText(t) ==
    LET s == t % SecondsPerDay
    IN  Pad(s \div 3600, 2) \o <<":">> \o Pad((s \div 60) % 60, 2)
            \o <<":">> \o Pad(s % 60, 2)

\* new Date(1000 * t).toISOString(): "YYYY-MM-DDTHH:MM:SS.sssZ"
ToISOString(t) == DateText(t) \o <<"T">> \o TimeText(t) \o <<".", "0", "0", "0", "Z">>

\* SQLite datetime('now') at clock t: "YYYY-MM-DD HH:MM:SS"
SqliteDatetime(t) == DateText(t) \o <<" ">> \o TimeText(t)

(***************************************************************************)
(* Session store.                                                          *)
(***************************************************************************)
Tokens == 1..NumTokens

\* 30 * 24 * 60 * 60 * 1000 ms, in seconds
SESSION_TTL == 30 * 24 * 60 * 60

Null == [null |-> TRUE]

\* clock advances offered to a behaviour: seven hours, fourteen hours,
\* thirty days
Steps == {7 * 3600, 14 * 3600, SESSION_TTL}

IssuedTokens == {issued[i].token : i \in DOMAIN issued}

\* the clock at which token t was (last) issued
IssuedAt(t) ==
    issued[CHOOSE i \in DOMAIN issued :
              /\ issued[i].token = t
              /\ \A j \in DOMAIN issued : issued[j].token = t => j <= i].at

\* generateSessionId: 32 random bytes, hex encoded.  Tokens are opaque and
\* only compared for equality; a draw of 256 random bits is modelled as a
\* value that the store has not seen before.  Unseen values are
\* interchangeable, so the draw is the least of them.
generateSessionId ==
    LET unseen == Tokens \ (IssuedTokens \cup revoked)
    IN  {t \in unseen : \A x \in unseen : t <= x}

\* the WHERE clause of getSession: s.expires_at > datetime('now'), on TEXT
ExpiresAfterNow(expires_at, now) == StrLess(SqliteDatetime(now), expires_at)

\* the WHERE clause of cleanupExpiredSessions: expires_at < datetime('now')
ExpiresBeforeNow(expires_at, now) == StrLess(expires_at, SqliteDatetime(now))

\* getSession(db, sessionId): the joined row, or null
getSession(t) ==
    IF /\ t \in DOMAIN sessions
       /\ sessions[t].user_id \in DOMAIN users
       /\ ExpiresAfterNow(sessions[t].expires_at, clock)
    THEN [session |-> [id |-> t, user_id |-> sessions[t].user_id,
                       expires_at |-> sessions[t].expires_at],
          user |-> [id |-> sessions[t].user_id,
                    username |-> users[sessions[t].user_id].username,
                    password_hash |-> users[sessions[t].user_id].password_hash]]
    ELSE Null

\* the row createSession inserts for userId at the current clock
NewSessionRow(userId) ==
    [user_id |-> userId, expires_at |-> ToISOString(clock + SESSION_TTL)]

\* a deletion that only removes rows the lookup would no longer return
RowsAfterDelete_OnlyExpired(t) ==
    [x \in {y \in DOMAIN sessions :
                y # t \/ ExpiresAfterNow(sessions[y].expires_at, clock)}
        |-> sessions[x]]

\* a deletion that removes every session of the user the token belongs to
RowsAfterDelete_WholeUser(t) ==
    [x \in {y \in DOMAIN sessions :
                /\ y # t
                /\ t \in DOMAIN sessions => sessions[y].user_id # sessions[t].user_id}
        |-> sessions[x]]

\* table sessions after DELETE FROM sessions WHERE id = t
RowsAfterDelete(t) == [x \in DOMAIN sessions \ {t} |-> sessions[x]]

\* a sweep that removes every row whose expiry date is today or earlier
RowsAfterCleanup_ByDate ==
    [x \in {y \in DOMAIN sessions :
                StrLess(DateText(clock), SubSeq(sessions[y].expires_at, 1, 10))}
        |-> sessions[x]]

\* table sessions after DELETE FROM sessions WHERE expires_at < datetime('now')
RowsAfterCleanup ==
    [x \in {y \in DOMAIN sessions : ~ExpiresBeforeNow(sessions[y].expires_at, clock)}
        |-> sessions[x]]

\* createSession(db, userId); its only caller passes the id of a row of users
CreateSession(userId) ==
    /\ userId \in DOMAIN users
    /\ \E t \in generateSessionId :
          /\ sessions' = [x \in DOMAIN sessions \cup {t} |->
                            IF x = t THEN NewSessionRow(userId) ELSE sessions[x]]
          /\ issued' = Append(issued, [token |-> t, at |-> clock,
                                           user |-> userId])
          /\ last' = [op |-> "createSession", token |-> t, result |-> t]
    /\ UNCHANGED <<clock, users, revoked, ticks>>
    /\ UNCHANGED <<hashVars, accVars, appVars, calVars>>

GetSession(t) ==
    /\ last' = [op |-> "getSession", token |-> t, result |-> getSession(t)]
    /\ UNCHANGED <<clock, users, sessions, issued, revoked, ticks>>
    /\ UNCHANGED <<hashVars, accVars, appVars, calVars>>

DeleteSession(t) ==
    /\ sessions' = RowsAfterDelete(t)
    /\ revoked' = revoked \cup {t}
    /\ last' = [op |-> "deleteSession", token |-> t, result |-> "void"]
    /\ UNCHANGED <<clock, users, issued, ticks>>
    /\ UNCHANGED <<hashVars, accVars, appVars, calVars>>

CleanupExpiredSessions ==
    /\ sessions' = RowsAfterCleanup
    /\ last' = [op |-> "cleanupExpiredSessions", token |-> 0, result |-> "void"]
    /\ UNCHANGED <<clock, users, issued, revoked, ticks>>
    /\ UNCHANGED <<hashVars, accVars, appVars, calVars>>

\* time passes
Advance(d) ==
    /\ ticks < MaxTicks
    /\ clock' = clock + d
    /\ ticks' = ticks + 1
    /\ UNCHANGED <<users, sessions, issued, revoked, last>>
    /\ UNCHANGED <<hashVars, accVars, appVars, calVars>>

(***************************************************************************)
(* Claims about the session store.                                         *)
(***************************************************************************)
\* the instant at which the session of token t expires
ExpiryInstant(t) == IssuedAt(t) + SESSION_TTL

\* C1: a lookup of a stored session at clock n returns the session and its
\* user iff n is before the expiry instant (creation + 30 days); at or
\* after that instant it returns null although the row is still stored.
C1_ValidIffBeforeExpiry ==
    [][\A t \in Tokens :
          (GetSession(t) /\ t \in DOMAIN sessions)
             => ((last'.result # Null) <=> (clock < ExpiryInstant(t)))]_sessVars

\* C2: once deleteSession(T) has run, every lookup of T returns null, and
\* deleteSession of a token with no row leaves the table as it was.
C2_RevokedStaysAbsent == \A t \in revoked : getSession(t) = Null

C2_DeleteAbsentIsNoOp ==
    [][\A t \in Tokens :
          (DeleteSession(t) /\ t \notin DOMAIN sessions) => sessions' = sessions]_sessVars

C2_RevokeIdempotent == []C2_RevokedStaysAbsent /\ C2_DeleteAbsentIsNoOp

\* C2 witness: a token that was issued and then revoked has been looked up
C2_Witness ==
    /\ last.op = "getSession"
    /\ last.token \in revoked
    /\ last.token \in IssuedTokens
    /\ last.result = Null

\* C3: createSession never returns a token it returned before, and a token
\* that was revoked or whose expiry instant has passed never resolves again.
C3_NoReuseAndDeadStaysDead ==
    /\ \A i, j \in DOMAIN issued : issued[i].token = issued[j].token => i = j
    /\ \A t \in IssuedTokens :
          (t \in revoked \/ clock >= ExpiryInstant(t)) => getSession(t) = Null

\* C15: after cleanupExpiredSessions has run at clock n, no row whose
\* expiry instant is at or before n remains, and every row whose expiry
\* instant is after n is still stored, unchanged.
C15_SweepRemovesExactlyExpired ==
    [][CleanupExpiredSessions =>
          \A t \in DOMAIN sessions :
              IF ExpiryInstant(t) <= clock
              THEN t \notin DOMAIN sessions'
              ELSE t \in DOMAIN sessions' /\ sessions'[t] = sessions[t]]_sessVars

\* C16: a sweep removes no row that getSession returns and adds or changes
\* none, and it leaves the clock and table users alone; getSession, which
\* reads only these, gives for every token the same result before and
\* after the sweep.
C16_SweepInvisibleToLookup ==
    [][CleanupExpiredSessions =>
          /\ clock' = clock
          /\ users' = users
          /\ \A t \in Tokens :
                /\ getSession(t) # Null =>
                      (t \in DOMAIN sessions' /\ sessions'[t] = sessions[t])
                /\ t \in DOMAIN sessions' =>
                      (t \in DOMAIN sessions /\ sessions'[t] = sessions[t])]_sessVars

\* C16 witness: a sweep has removed the row of one session while another
\* session resolves
C16_Witness ==
    /\ last.op = "cleanupExpiredSessions"
    /\ \E t \in IssuedTokens \ revoked : t \notin DOMAIN sessions
    /\ \E t \in DOMAIN sessions : getSession(t) # Null

(***************************************************************************)
(* Credential hasher.                                                      *)
(***************************************************************************)
PBKDF2_ITERATIONS == 50000
SALT_LENGTH == 16
HASH_LENGTH == 32

\* the secrets of the model; TextEncoder.encode is injective, so a secret is
\* identified by its place in this list
Passwords == <<"", "correcthorse123", "wrongpass">>
PwCode(p) == CHOOSE i \in DOMAIN Passwords : Passwords[i] = p

RECURSIVE Repeat(_, _)
Repeat(x, n) == IF n = 0 THEN <<>> ELSE <<x>> \o Repeat(x, n - 1)

\* String.prototype.split(sep) for a one-character separator
RECURSIVE Split(_, _)
Split(s, sep) ==
    IF \E i \in 1..Len(s) : s[i] = sep
    THEN LET i == CHOOSE k \in 1..Len(s) :
                      s[k] = sep /\ \A j \in 1..(k - 1) : s[j] # sep
         IN  <<SubSeq(s, 1, i - 1)>> \o Split(SubSeq(s, i + 1, Len(s)), sep)
    ELSE <<s>>

\* b.toString(16) of a byte, without the padStart
ToHexByte_NoPad(b) ==
    IF b < 16 THEN <<HexDigits[b + 1]>>
    ELSE <<HexDigits[(b \div 16) + 1], HexDigits[(b % 16) + 1]>>

\* b.toString(16).padStart(2, "0") of a byte
ToHexByte(b) == <<HexDigits[(b \div 16) + 1], HexDigits[(b % 16) + 1]>>

\* Array.from(bytes).map(toHexByte).join("")
RECURSIVE HexOf(_)
HexOf(bytes) ==
    IF bytes = <<>> THEN <<>> ELSE ToHexByte(Head(bytes)) \o HexOf(Tail(bytes))

\* s.match(/.{2}/g): the consecutive two-character chunks of s, a trailing
\* odd character dropped; the empty sequence stands for the null that match
\* returns when s has fewer than two characters
MatchPairs(s) == [k \in 1..(Len(s) \div 2) |-> <<s[2 * k - 1], s[2 * k]>>]

IsHex(c) == IndexOf(HexDigits, c) >= 0

\* the element a Uint8Array stores for parseInt(pair, 16): the leading hex
\* digits of the pair, NaN (no leading hex digit) stored as 0
ParseInt16(pair) ==
    IF ~IsHex(pair[1]) THEN 0
    ELSE IF ~IsHex(pair[2]) THEN IndexOf(HexDigits, pair[1])
    ELSE 16 * IndexOf(HexDigits, pair[1]) + IndexOf(HexDigits, pair[2])

\* crypto.subtle.digest("SHA-256", secret): 32 bytes, collision-free
SHA256(p) == <<PwCode(p)>> \o Repeat(255, 31)

\* crypto.subtle.deriveBits(PBKDF2, SHA-256): bits/8 bytes determined by the
\* secret, the salt and the iteration count, collision-free for salts of at
\* most 29 bytes
PBKDF2(p, salt, iterations, bits) ==
    SubSeq(<<PwCode(p), Len(salt), iterations % 256>> \o salt \o Repeat(0, 32),
           1, bits \div 8)

\* the XOR-accumulate loop over two strings of equal length: 0 iff no
\* position differs
XorAccumulateIsZero(a, b) == \A i \in 1..Len(a) : Ord(a[i]) = Ord(b[i])

BoolText(b) == IF b THEN "true" ELSE "false"

\* hashPassword(password) with the salt that getRandomValues drew
hashPassword(p, salt) ==
    HexOf(salt) \o <<":">>
        \o HexOf(PBKDF2(p, salt, PBKDF2_ITERATIONS, HASH_LENGTH * 8))

\* the legacy hashPassword: the bare hex SHA-256 digest of the secret
legacyHashPassword(p) == HexOf(SHA256(p))

\* verifyPassword whose legacy branch takes every stored value without a
\* colon and compares only as many characters as the stored value has
verifyPassword_LegacyPrefix(p, storedHash) ==
    LET parts == Split(storedHash, ":")
    IN  IF Len(parts) = 1
        THEN BoolText(SubSeq(HexOf(SHA256(p)), 1, Len(storedHash)) = storedHash)
        ELSE IF Len(parts) # 2 THEN "false"
        ELSE IF MatchPairs(parts[1]) = <<>> THEN "TypeError"
        ELSE LET chunks == MatchPairs(parts[1])
                 salt == [i \in DOMAIN chunks |-> ParseInt16(chunks[i])]
                 hashHex == HexOf(PBKDF2(p, salt, PBKDF2_ITERATIONS, HASH_LENGTH * 8))
             IN  BoolText(hashHex = parts[2])

\* verifyPassword without the legacy branch
verifyPassword_NoLegacy(p, storedHash) ==
    LET parts == Split(storedHash, ":")
    IN  IF Len(parts) # 2 THEN "false"
        ELSE IF MatchPairs(parts[1]) = <<>> THEN "TypeError"
        ELSE LET chunks == MatchPairs(parts[1])
                 salt == [i \in DOMAIN chunks |-> ParseInt16(chunks[i])]
                 hashHex == HexOf(PBKDF2(p, salt, PBKDF2_ITERATIONS, HASH_LENGTH * 8))
             IN  BoolText(hashHex = parts[2])

\* verifyPassword(password, storedHash): "true", "false", or "TypeError" when
\* the call throws (saltHex.match(...) is null and .map is read from it)
verifyPassword(p, storedHash) ==
    LET parts == Split(storedHash, ":")
    IN  IF Len(parts) = 1 /\ Len(storedHash) = 64
        THEN BoolText(HexOf(SHA256(p)) = storedHash)
        ELSE IF Len(parts) # 2 THEN "false"
        ELSE LET saltHex == parts[1]
                 expectedHashHex == parts[2]
                 chunks == MatchPairs(saltHex)
             IN  IF chunks = <<>> THEN "TypeError"
                 ELSE LET salt == [i \in DOMAIN chunks |-> ParseInt16(chunks[i])]
                          hashHex == HexOf(PBKDF2(p, salt, PBKDF2_ITERATIONS,
                                                  HASH_LENGTH * 8))
                      IN  IF Len(hashHex) # Len(expectedHashHex) THEN "false"
                          ELSE BoolText(XorAccumulateIsZero(hashHex, expectedHashHex))

\* salts drawn in the model: 16 bytes alternating between two sample bytes
SaltByteSamples == {0, 9, 171, 255}
Salts ==
    {[i \in 1..SALT_LENGTH |-> IF i % 2 = 1 THEN a ELSE b] :
        a \in SaltByteSamples, b \in SaltByteSamples}

\* arbitrary text that a password_hash column may hold
RawAlphabet == {"0", "a", ":", "z"}
RECURSIVE TextsOfLen(_)
TextsOfLen(n) ==
    IF n = 0 THEN {<<>>}
    ELSE {Append(t, c) : t \in TextsOfLen(n - 1), c \in RawAlphabet}
RawTexts ==
    UNION {TextsOfLen(n) : n \in 0..MaxRawLen}
      \cup {Repeat("z", 64), Repeat("a", 63), Repeat("a", 65),
            Repeat("a", 32) \o <<":">> \o Repeat("0", 63),
            <<"z", "z", ":">> \o Repeat("0", 64),
            Repeat("a", 32) \o <<":">> \o Repeat("0", 64) \o <<":">>}

\* a credential is written with hashPassword
HashPassword(p) ==
    /\ \E salt \in Salts : stored' = hashPassword(p, salt)
    /\ storedBy' = [kind |-> "pbkdf2", password |-> p]
    /\ verdict' = [op |-> "none", password |-> "", result |-> "none"]
    /\ UNCHANGED <<sessVars, accVars, appVars, calVars>>

\* a credential written by the earlier, SHA-256 only, hashPassword
LegacyHashPassword(p) ==
    /\ stored' = legacyHashPassword(p)
    /\ storedBy' = [kind |-> "legacy", password |-> p]
    /\ verdict' = [op |-> "none", password |-> "", result |-> "none"]
    /\ UNCHANGED <<sessVars, accVars, appVars, calVars>>

\* any other text is found in the column
StoreRaw(s) ==
    /\ stored' = s
    /\ storedBy' = [kind |-> "raw", password |-> ""]
    /\ verdict' = [op |-> "none", password |-> "", result |-> "none"]
    /\ UNCHANGED <<sessVars, accVars, appVars, calVars>>

VerifyPassword(p) ==
    /\ verdict' = [op |-> "verifyPassword", password |-> p,
                   result |-> verifyPassword(p, stored)]
    /\ UNCHANGED <<stored, storedBy>>
    /\ UNCHANGED <<sessVars, accVars, appVars, calVars>>

HashInit ==
    /\ stored = <<>>
    /\ storedBy = [kind |-> "raw", password |-> ""]
    /\ verdict = [op |-> "none", password |-> "", result |-> "none"]

PasswordSet == {Passwords[i] : i \in DOMAIN Passwords}

HashNext ==
    \/ \E p \in PasswordSet : HashPassword(p)
    \/ \E p \in PasswordSet : LegacyHashPassword(p)
    \/ \E s \in RawTexts : StoreRaw(s)
    \/ \E p \in PasswordSet : VerifyPassword(p)

(***************************************************************************)
(* The provisioning script (scripts/create-user.ts).                       *)
(***************************************************************************)
script_PBKDF2_ITERATIONS == 50000
script_SALT_LENGTH == 16
script_HASH_LENGTH == 32

\* Buffer.prototype.toString("hex"): two lowercase hex digits per byte
RECURSIVE BufferToHex(_)
BufferToHex(bytes) ==
    IF bytes = <<>> THEN <<>>
    ELSE <<HexDigits[(Head(bytes) \div 16) + 1], HexDigits[(Head(bytes) % 16) + 1]>>
            \o BufferToHex(Tail(bytes))

\* crypto.randomBytes(SALT_LENGTH): the draws of the model
ScriptSalts ==
    {[i \in 1..script_SALT_LENGTH |-> IF i % 2 = 1 THEN a ELSE b] :
        a \in SaltByteSamples, b \in SaltByteSamples}

\* a script that derives the key with twice the iterations
scriptHashPassword_MoreIterations(p, salt) ==
    BufferToHex(salt) \o <<":">>
        \o BufferToHex(PBKDF2(p, salt, 2 * script_PBKDF2_ITERATIONS,
                              script_HASH_LENGTH * 8))

\* hashPassword(password) of the script with the salt that randomBytes
\* drew; crypto.pbkdf2 takes the key length in bytes and encodes a string
\* password as UTF-8, as TextEncoder does
scriptHashPassword(p, salt) ==
    BufferToHex(salt) \o <<":">>
        \o BufferToHex(PBKDF2(p, salt, script_PBKDF2_ITERATIONS,
                              script_HASH_LENGTH * 8))

\* the script writes the credential of a new user
ScriptHashPassword(p) ==
    /\ \E salt \in ScriptSalts : stored' = scriptHashPassword(p, salt)
    /\ storedBy' = [kind |-> "script", password |-> p]
    /\ verdict' = [op |-> "none", password |-> "", result |-> "none"]
    /\ UNCHANGED <<sessVars, accVars, appVars, calVars>>

\* credentials written by the script, verified by the worker
ProvisionNext ==
    \/ \E p \in PasswordSet : ScriptHashPassword(p)
    \/ \E p \in PasswordSet : VerifyPassword(p)

(***************************************************************************)
(* Assertion validator (utils/access.ts).                                  *)
(***************************************************************************)
\* CACHE_TTL_MS = 5 * 60 * 1000 ms, in seconds
CACHE_TTL == 5 * 60

\* configuration: expected audience tag and the issuer derived from the
\* team domain, `https://${teamDomain}.cloudflareaccess.com`
ConfiguredAud == "aud-app"
ExpectedIssuer == "https://team.cloudflareaccess.com"

\* JWK keys of the issuer: kid and the public key material n
Key1 == [kid |-> "k1", n |-> "n1"]
Key2 == [kid |-> "k2", n |-> "n2"]
KeySets == {{Key1}, {Key2}, {Key1, Key2}}

NullKeys == [isNull |-> TRUE, keys |-> {}]
NoKey == [kid |-> "none", n |-> "none"]

\* no fetch of the key set has completed yet
NoFetch == [none |-> TRUE, by |-> "none", start |-> 0, keys |-> {}]

\* clock advances offered while assertions are validated
AccessSteps == {100, CACHE_TTL}

\* An assertion as decodeJWTParts sees it: the number of dot-separated
\* segments, whether the segments decode (base64url, JSON), the header
\* fields, the payload fields, and the private key that made the signature
\* over this header.payload ("none": no key did, e.g. a tampered payload).
ValidAssertion(kid) ==
    [segments |-> 3, decodable |-> TRUE, alg |-> "RS256", kid |-> kid,
     sigBy |-> IF kid = "k1" THEN "n1" ELSE "n2",
     iss |-> ExpectedIssuer, aud |-> <<ConfiguredAud>>,
     exp |-> StartTime + 86400, email |-> "user@example.com"]

AllAssertions ==
    [segments : {3, 2}, decodable : BOOLEAN, alg : {"RS256", "HS256"},
     kid : {"k1", "k2"}, sigBy : {"n1", "n2", "none"},
     iss : {ExpectedIssuer, "https://evil.example"},
     aud : {<<ConfiguredAud>>, <<"aud-other">>, <<"missing">>},
     exp : {StartTime + 86400, StartTime + 100, StartTime - 1},
     email : {"user@example.com", ""}]

\* payload.aud: an array of audience tags; <<"missing">> stands for a
\* payload without the aud field
AudMissing(tok) == tok.aud = <<"missing">>
AudIncludes(tok, a) == ~AudMissing(tok) /\ \E k \in 1..Len(tok.aud) : tok.aud[k] = a

FaultCount(tok) ==
    LET v == ValidAssertion(tok.kid)
        F(b) == IF b THEN 1 ELSE 0
    IN  F(tok.segments # v.segments) + F(tok.decodable # v.decodable)
          + F(tok.alg # v.alg) + F(tok.sigBy # v.sigBy) + F(tok.iss # v.iss)
          + F(tok.aud # v.aud) + F(tok.exp # v.exp) + F(tok.email # v.email)

Assertions == {tok \in AllAssertions : FaultCount(tok) <= MaxFaults}

CallIds == {"c1", "c2"}

IdleCall ==
    [pc |-> "idle", token |-> ValidAssertion("k1"), now |-> 0, forced |-> FALSE,
     keys |-> {}, key |-> NoKey, gets |-> 0, fetches |-> 0, refetches |-> 0,
     first |-> NullKeys, second |-> NullKeys, checkedAt |-> 0, result |-> "pending",
     rotated |-> FALSE, failed |-> FALSE, thrown |-> "none"]

\* a catch block that passes the exception on to the caller
Catch_Rethrow(call, e) ==
    [call EXCEPT !.pc = "done", !.result = "throws", !.thrown = e]

\* catch { return null; }: the exception e raised inside the try block ends
\* the call with null
Catch(call, e) ==
    [call EXCEPT !.pc = "done", !.result = "null", !.thrown = e]

\* decodeJWTParts returns (does not throw)
Decodes(tok) == tok.segments = 3 /\ tok.decodable

\* no check of header.alg
AlgAccepted_Any(tok) == TRUE

\* header.alg !== "RS256" is false
AlgAccepted(tok) == tok.alg = "RS256"

\* a cache that still answers at the instant its entry expires
CacheAnswers_Inclusive(forceRefresh, now) ==
    ~forceRefresh /\ ~cachedKeys.isNull /\ now <= cacheExpiry

\* getPublicKeys: the cache answers without a fetch
CacheAnswers(forceRefresh, now) ==
    ~forceRefresh /\ ~cachedKeys.isNull /\ now < cacheExpiry

\* keys.keys.find((k) => k.kid === header.kid): the matches
FindKey(keys, kid) == {k \in keys : k.kid = kid}

\* a signature check that accepts whatever key was located
verifySignature_AlwaysValid(key, tok) == TRUE

\* verifySignature(key, signatureInput, signature)
verifySignature(key, tok) == tok.sigBy = key.n

\* the issuer check of validateAccessJWT passes
IssuerAccepted(tok) == tok.iss = ExpectedIssuer

\* an audience check that passes whenever payload.aud is present
AudienceAccepted_AnyPresent(tok) == ~AudMissing(tok)

\* the audience check passes: payload.aud is present and includes aud
AudienceAccepted(tok) == AudIncludes(tok, ConfiguredAud)

\* the expiry check passes: payload.exp < now is false
NotExpired(tok, now) == ~(tok.exp < now)

\* the value validateAccessJWT returns once the key is located
Validated(key, tok, now) ==
    IF ~verifySignature(key, tok) THEN "null"
    ELSE IF ~IssuerAccepted(tok) THEN "null"
    ELSE IF ~AudienceAccepted(tok) THEN "null"
    ELSE IF ~NotExpired(tok, now) THEN "null"
    ELSE IF tok.email = "" THEN "null"
    ELSE tok.email

\* a lookup that gives up when the kid is absent, without the forced refetch
AfterLookup_NoRetry(call, keys, wasForced) ==
    LET found == FindKey(keys, call.token.kid)
        got == [isNull |-> FALSE, keys |-> keys]
        seen == IF wasForced THEN [call EXCEPT !.second = got, !.keys = keys]
                ELSE [call EXCEPT !.first = got, !.keys = keys]
    IN  IF found # {}
        THEN [seen EXCEPT !.pc = "verify", !.key = CHOOSE k \in found : TRUE]
        ELSE [seen EXCEPT !.pc = "done", !.result = "null"]

\* the call record after the lookup of header.kid in key set `keys`, which
\* getPublicKeys has just returned; `wasForced` tells the forced refetch from
\* the first lookup
AfterLookup(call, keys, wasForced) ==
    LET found == FindKey(keys, call.token.kid)
        got == [isNull |-> FALSE, keys |-> keys]
        seen == IF wasForced THEN [call EXCEPT !.second = got, !.keys = keys]
                ELSE [call EXCEPT !.first = got, !.keys = keys]
    IN  IF found # {}
        THEN [seen EXCEPT !.pc = "verify", !.key = CHOOSE k \in found : TRUE]
        ELSE IF ~wasForced
        THEN [seen EXCEPT !.pc = "fetch", !.forced = TRUE, !.now = clock,
                          !.gets = @ + 1, !.fetches = @ + 1, !.refetches = @ + 1]
        ELSE [seen EXCEPT !.pc = "done", !.result = "null"]

\* validateAccessJWT(token, teamDomain, aud) up to its first suspension
Begin(c, tok) ==
    /\ calls[c].pc = "idle"
    /\ LET call == [IdleCall EXCEPT !.token = tok]
       IN  calls' = [calls EXCEPT ![c] =
             IF ~Decodes(tok) THEN Catch(call, "decode")
             ELSE IF ~AlgAccepted(tok)
             THEN [call EXCEPT !.pc = "done", !.result = "null"]
             ELSE IF CacheAnswers(FALSE, clock)
             THEN AfterLookup([call EXCEPT !.gets = 1, !.now = clock],
                              cachedKeys.keys, FALSE)
             ELSE [call EXCEPT !.pc = "fetch", !.now = clock, !.gets = 1,
                               !.fetches = 1]]
    /\ UNCHANGED <<cachedKeys, cacheExpiry, published, lastFetch>>
    /\ UNCHANGED <<sessVars, hashVars, appVars, calVars>>

\* a completion that dates the cache entry from the end of the fetch
FetchDone_ExpiryAtCompletion(c, ok) ==
    /\ calls[c].pc = "fetch"
    /\ IF ok
       THEN /\ cachedKeys' = [isNull |-> FALSE, keys |-> published]
            /\ cacheExpiry' = clock + CACHE_TTL
            /\ lastFetch' = [none |-> FALSE, by |-> c, start |-> calls[c].now,
                             keys |-> published]
            /\ calls' = [calls EXCEPT ![c] =
                            AfterLookup(calls[c], published, calls[c].forced)]
       ELSE /\ calls' = [calls EXCEPT ![c] =
                            [Catch(calls[c], "fetch") EXCEPT !.failed = TRUE]]
            /\ UNCHANGED <<cachedKeys, cacheExpiry, lastFetch>>
    /\ UNCHANGED published
    /\ UNCHANGED <<sessVars, hashVars, appVars, calVars>>

\* a failed fetch that also drops the cached entry
FetchDone_DropsCacheOnFailure(c, ok) ==
    /\ calls[c].pc = "fetch"
    /\ IF ok
       THEN /\ cachedKeys' = [isNull |-> FALSE, keys |-> published]
            /\ cacheExpiry' = calls[c].now + CACHE_TTL
            /\ lastFetch' = [none |-> FALSE, by |-> c, start |-> calls[c].now,
                             keys |-> published]
            /\ calls' = [calls EXCEPT ![c] =
                            AfterLookup(calls[c], published, calls[c].forced)]
       ELSE /\ calls' = [calls EXCEPT ![c] =
                            [Catch(calls[c], "fetch") EXCEPT !.failed = TRUE]]
            /\ cachedKeys' = NullKeys
            /\ cacheExpiry' = 0
            /\ lastFetch' = NoFetch
    /\ UNCHANGED published
    /\ UNCHANGED <<sessVars, hashVars, appVars, calVars>>

\* the fetch of the key set completes: with the published key set, or with a
\* network error or a non-OK status (fetchPublicKeys throws)
FetchDone(c, ok) ==
    /\ calls[c].pc = "fetch"
    /\ IF ok
       THEN /\ cachedKeys' = [isNull |-> FALSE, keys |-> published]
            /\ cacheExpiry' = calls[c].now + CACHE_TTL
            /\ lastFetch' = [none |-> FALSE, by |-> c, start |-> calls[c].now,
                             keys |-> published]
            /\ calls' = [calls EXCEPT ![c] =
                            AfterLookup(calls[c], published, calls[c].forced)]
       ELSE /\ calls' = [calls EXCEPT ![c] =
                            [Catch(calls[c], "fetch") EXCEPT !.failed = TRUE]]
            /\ UNCHANGED <<cachedKeys, cacheExpiry, lastFetch>>
    /\ UNCHANGED published
    /\ UNCHANGED <<sessVars, hashVars, appVars, calVars>>

\* signature, issuer, audience and expiry checks, and the return
Verify(c) ==
    /\ calls[c].pc = "verify"
    /\ calls' = [calls EXCEPT ![c].pc = "done", ![c].checkedAt = clock,
                              ![c].result = Validated(calls[c].key,
                                                      calls[c].token, clock)]
    /\ UNCHANGED <<cachedKeys, cacheExpiry, published, lastFetch>>
    /\ UNCHANGED <<sessVars, hashVars, appVars, calVars>>

\* crypto.subtle.importKey or crypto.subtle.verify rejects (a key the
\* runtime cannot import, a malformed signature buffer)
VerifyThrows(c) ==
    /\ calls[c].pc = "verify"
    /\ calls' = [calls EXCEPT ![c] =
                    Catch(calls[c], "crypto")]
    /\ UNCHANGED <<cachedKeys, cacheExpiry, published, lastFetch>>
    /\ UNCHANGED <<sessVars, hashVars, appVars, calVars>>

\* the caller has taken the result; the call slot is free again
Finish(c) ==
    /\ calls[c].pc = "done"
    /\ calls' = [calls EXCEPT ![c] = IdleCall]
    /\ UNCHANGED <<cachedKeys, cacheExpiry, published, lastFetch>>
    /\ UNCHANGED <<sessVars, hashVars, appVars, calVars>>

\* the issuer rotates its keys; the calls in progress are marked, their
\* outcome may depend on either key set
Rotate(ks) ==
    /\ published # ks
    /\ published' = ks
    /\ calls' = [c \in CallIds |->
                    IF calls[c].pc = "idle" THEN calls[c]
                    ELSE [calls[c] EXCEPT !.rotated = TRUE]]
    /\ UNCHANGED <<cachedKeys, cacheExpiry, lastFetch>>
    /\ UNCHANGED <<sessVars, hashVars, appVars, calVars>>

AccInit ==
    /\ cachedKeys = NullKeys
    /\ cacheExpiry = 0
    /\ published = {Key1}
    /\ calls = [c \in CallIds |-> IdleCall]
    /\ lastFetch = NoFetch

\* one validation at a time
AccessNext ==
    \/ \E tok \in Assertions : Begin("c1", tok)
    \/ \E ok \in BOOLEAN : FetchDone("c1", ok)
    \/ Verify("c1")
    \/ VerifyThrows("c1")
    \/ Finish("c1")
    \/ \E ks \in KeySets : Rotate(ks)
    \/ \E d \in AccessSteps : Advance(d)

\* the assertions of concurrent validations: valid ones, for either key
ConcAssertions == {ValidAssertion("k1"), ValidAssertion("k2")}

\* the clock advance offered while validations run concurrently
ConcSteps == {100}

\* validations run concurrently, each suspending at its fetches
ConcNext ==
    \/ \E c \in CallIds, tok \in ConcAssertions : Begin(c, tok)
    \/ \E c \in CallIds, ok \in BOOLEAN : FetchDone(c, ok)
    \/ \E c \in CallIds : Verify(c)
    \/ \E c \in CallIds : VerifyThrows(c)
    \/ \E c \in CallIds : Finish(c)
    \/ \E ks \in KeySets : Rotate(ks)
    \/ \E d \in ConcSteps : Advance(d)

(***************************************************************************)
(* HTTP application (index.tsx): the auth middleware, the login and logout *)
(* routes and the habit routes.  One action handles one request, from the  *)
(* middleware to the response.                                             *)
(***************************************************************************)
\* the ids that AUTOINCREMENT hands out to habits in one behaviour
HabitIds == {1}

\* the request carries no session cookie
NoCookie == 0
Cookies == Tokens \cup {NoCookie}

\* submitted usernames; "mallory" has no row in users
Usernames == {"alice", "carol", "mallory"}

\* submitted passwords: alice's, and one that is nobody's
LoginPasswords == {"", "correcthorse123"}

\* submitted habit names after trim(); "" is a blank name
HabitNames == {"", "run", "read"}
NewHabitNames == {"", "run"}
\* the :id of a request; 2 is the id of no habit
HabitParams == HabitIds \cup {2}

\* getLocalDate(c): the date the client calls today
Today == DateText(StartTime)

\* the optional ?date= of a toggle; <<>> is no parameter
DateParams == {<<>>, Today, DateText(StartTime + SecondsPerDay), <<"x">>}

\* the JSON bodies posted to /habits/reorder
ReorderBodies ==
    {[kind |-> "badJson", order |-> <<>>], [kind |-> "notArray", order |-> <<>>]}
      \cup {[kind |-> "array", order |-> o] :
               o \in {<<>>} \cup {<<a>> : a \in HabitParams}}

\* no request is being answered
NoRequest ==
    [route |-> "none", cookie |-> NoCookie, user |-> 0, session |-> NoCookie,
     status |-> 0, location |-> "", body |-> "", ops |-> {},
     deleteCookie |-> FALSE, setCookie |-> NoCookie,
     username |-> "", password |-> ""]

\* a lookup that pushes the expiry of the session it resolves forward
SessionsAfterLookup_Sliding(sessionId) ==
    IF sessionId # NoCookie /\ getSession(sessionId) # Null
    THEN [sessions EXCEPT ![sessionId].expires_at = ToISOString(clock + SESSION_TTL)]
    ELSE sessions

\* table sessions after getSession(db, sessionId): a SELECT, nothing is written
SessionsAfterLookup(sessionId) == sessions

\* an auth middleware that leaves a cookie that did not resolve in place
AuthMiddleware_NoClear(sessionId) ==
    IF sessionId # NoCookie /\ getSession(sessionId) # Null
    THEN [user |-> getSession(sessionId).user,
          session |-> getSession(sessionId).session, deleteCookie |-> FALSE]
    ELSE [user |-> Null, session |-> Null, deleteCookie |-> FALSE]

\* the auth middleware: what it sets on the context, and whether it clears
\* the session cookie
AuthMiddleware(sessionId) ==
    IF sessionId # NoCookie
    THEN LET result == getSession(sessionId)
         IN  IF result # Null
             THEN [user |-> result.user, session |-> result.session,
                   deleteCookie |-> FALSE]
             ELSE [user |-> Null, session |-> Null, deleteCookie |-> TRUE]
    ELSE [user |-> Null, session |-> Null, deleteCookie |-> FALSE]

\* what a handler leaves: the response, the statements it ran on the habit
\* tables and the tables after them
Out(status, location, body, ops, hs, logs, nextId) ==
    [status |-> status, location |-> location, body |-> body, ops |-> ops,
     habits |-> hs, habit_logs |-> logs, nextHabitId |-> nextId]

Same(status, location, body, ops) ==
    Out(status, location, body, ops, habits, habit_logs, nextHabitId)

\* a lookup of the habit by id alone
OwnHabit_AnyUser(user, habitId) == habitId \in DOMAIN habits

\* SELECT * FROM habits WHERE id = ? AND user_id = ?
OwnHabit(user, habitId) ==
    habitId \in DOMAIN habits /\ habits[habitId].user_id = user.id

HabitsOf(user) == {h \in DOMAIN habits : habits[h].user_id = user.id}

\* /^\d{4}-\d{2}-\d{2}$/.test(dateParam)
IsDateFormat(d) ==
    /\ Len(d) = 10
    /\ \A i \in 1..10 : IF i \in {5, 8} THEN d[i] = "-" ELSE IndexOf(Digits, d[i]) >= 0

\* GET /
Dashboard(user, q) == Same(200, "", "dashboard", {"SELECT habits", "SELECT habit_logs"})

\* POST /habits
CreateHabit(user, q) ==
    IF q.name = "" THEN Same(302, "/", "", {})
    ELSE LET mine == HabitsOf(user)
             maxOrder == IF mine = {} THEN -1
                         ELSE CHOOSE m \in {habits[h].sort_order : h \in mine} :
                                 \A h \in mine : habits[h].sort_order <= m
             newOrder == maxOrder + 1
             name == q.name
         IN  IF \E h \in mine : habits[h].name = name
             THEN Same(302, "/", "", {"SELECT habits", "INSERT habits"})
             ELSE Out(302, "/", "", {"SELECT habits", "INSERT habits"},
                      [h \in DOMAIN habits \cup {nextHabitId} |->
                          IF h = nextHabitId
                          THEN [user_id |-> user.id, name |-> name,
                                sort_order |-> newOrder]
                          ELSE habits[h]],
                      habit_logs, nextHabitId + 1)

\* the loop of POST /habits/reorder: UPDATE habits SET sort_order = i
\* WHERE id = order[i] AND user_id = ?, for i = from, from + 1, ...
RECURSIVE ReorderFrom(_, _, _, _)
ReorderFrom(hs, user, order, i) ==
    IF i >= Len(order) THEN hs
    ELSE LET habitId == order[i + 1]
             next == IF habitId \in DOMAIN hs /\ hs[habitId].user_id = user.id
                     THEN [hs EXCEPT ![habitId].sort_order = i]
                     ELSE hs
         IN  ReorderFrom(next, user, order, i + 1)

\* POST /habits/reorder
Reorder(user, q) ==
    IF q.body.kind = "badJson" THEN Same(500, "", "Failed to reorder", {})
    ELSE IF q.body.kind = "notArray" THEN Same(400, "", "Invalid order", {})
    ELSE Out(200, "", "success",
             IF q.body.order = <<>> THEN {} ELSE {"UPDATE habits"},
             ReorderFrom(habits, user, q.body.order, 0), habit_logs, nextHabitId)

\* POST /habits/:id/toggle
Toggle(user, q) ==
    IF q.dateParam # <<>> /\ ~IsDateFormat(q.dateParam)
    THEN Same(400, "", "Invalid date format", {})
    ELSE IF q.dateParam # <<>> /\ StrLess(Today, q.dateParam)
    THEN Same(400, "", "Cannot toggle future dates", {})
    ELSE IF ~OwnHabit(user, q.habitId)
    THEN Same(404, "", "Not found", {"SELECT habits"})
    ELSE LET targetDate == IF q.dateParam # <<>> THEN q.dateParam ELSE Today
             habitId == q.habitId
             dateParam == q.dateParam
             row == [habit_id |-> habitId, date |-> targetDate]
         IN  IF row \in habit_logs
             THEN Out(200, "", IF dateParam # <<>> THEN "calendar" ELSE "card",
                      {"SELECT habits", "SELECT habit_logs", "DELETE habit_logs"},
                      habits, habit_logs \ {row}, nextHabitId)
             ELSE Out(200, "", IF dateParam # <<>> THEN "calendar" ELSE "card",
                      {"SELECT habits", "SELECT habit_logs", "INSERT habit_logs"},
                      habits, habit_logs \cup {row}, nextHabitId)

\* GET /habits/:id/calendar/partial
CalendarPartial(user, q) ==
    IF ~OwnHabit(user, q.habitId) THEN Same(404, "", "Not found", {"SELECT habits"})
    ELSE Same(200, "", "calendar", {"SELECT habits", "SELECT habit_logs"})

\* GET /habits/:id/calendar
CalendarPage(user, q) ==
    IF ~OwnHabit(user, q.habitId) THEN Same(302, "/", "", {"SELECT habits"})
    ELSE Same(200, "", "calendar page", {"SELECT habits", "SELECT habit_logs"})

\* GET /habits/:id/card
Card(user, q) ==
    IF ~OwnHabit(user, q.habitId) THEN Same(404, "", "Not found", {"SELECT habits"})
    ELSE Same(200, "", "card", {"SELECT habits", "SELECT habit_logs"})

\* GET /habits/:id/edit
Edit(user, q) ==
    IF ~OwnHabit(user, q.habitId) THEN Same(404, "", "Not found", {"SELECT habits"})
    ELSE Same(200, "", "card in edit mode", {"SELECT habits", "SELECT habit_logs"})

\* POST /habits/:id/rename
Rename(user, q) ==
    IF q.name = "" THEN Same(400, "", "Name is required", {})
    ELSE IF ~OwnHabit(user, q.habitId)
    THEN Same(404, "", "Not found", {"SELECT habits"})
    ELSE IF \E h \in HabitsOf(user) \ {q.habitId} : habits[h].name = q.name
    THEN Same(400, "", "A habit with that name already exists",
              {"SELECT habits", "UPDATE habits"})
    ELSE Out(200, "", "card",
             {"SELECT habits", "UPDATE habits", "SELECT habit_logs"},
             [habits EXCEPT ![q.habitId].name = q.name], habit_logs, nextHabitId)

\* POST /habits/:id/delete; the rows of habit_logs go with their habit
\* (ON DELETE CASCADE)
DeleteHabit(user, q) ==
    IF ~OwnHabit(user, q.habitId) THEN Same(302, "/", "", {"DELETE habits"})
    ELSE Out(302, "/", "", {"DELETE habits"},
             [h \in DOMAIN habits \ {q.habitId} |-> habits[h]],
             {l \in habit_logs : l.habit_id # q.habitId}, nextHabitId)

\* a requireAuth that lets every request through
requireAuth_Open(ctx) == TRUE

\* requireAuth lets the request through to its handler
requireAuth(ctx) == ctx.user # Null

\* the response record of a request
Response(route, sessionId, ctx, out, deleteCookie, setCookie) ==
    [route |-> route, cookie |-> sessionId,
     user |-> IF ctx.user = Null THEN 0 ELSE ctx.user.id,
     session |-> IF ctx.session = Null THEN NoCookie ELSE ctx.session.id,
     status |-> out.status, location |-> out.location, body |-> out.body,
     ops |-> out.ops, deleteCookie |-> deleteCookie, setCookie |-> setCookie,
     username |-> "", password |-> ""]

\* the handler registered for a route behind requireAuth
Handler(route, user, q) ==
    CASE route = "GET /" -> Dashboard(user, q)
      [] route = "POST /habits" -> CreateHabit(user, q)
      [] route = "POST /habits/reorder" -> Reorder(user, q)
      [] route = "POST /habits/:id/toggle" -> Toggle(user, q)
      [] route = "GET /habits/:id/calendar/partial" -> CalendarPartial(user, q)
      [] route = "GET /habits/:id/calendar" -> CalendarPage(user, q)
      [] route = "GET /habits/:id/card" -> Card(user, q)
      [] route = "GET /habits/:id/edit" -> Edit(user, q)
      [] route = "POST /habits/:id/rename" -> Rename(user, q)
      [] route = "POST /habits/:id/delete" -> DeleteHabit(user, q)

\* a request to a route behind requireAuth, while the ids of table habits
\* stay within ids
HabitRequestWithin(ids, route, sessionId, q) ==
    LET ctx == AuthMiddleware(sessionId)
        \* c.get("user")! is read by the handler: user.id of null throws
        out == IF ~requireAuth(ctx) THEN Same(302, "/login", "", {})
               ELSE IF ctx.user = Null
               THEN Same(500, "", "Internal Server Error", {})
               ELSE Handler(route, ctx.user, q)
    IN  /\ resp = NoRequest
        /\ out.nextHabitId \in ids \cup {Cardinality(ids) + 1}
        /\ sessions' = SessionsAfterLookup(sessionId)
        /\ habits' = out.habits
        /\ habit_logs' = out.habit_logs
        /\ nextHabitId' = out.nextHabitId
        /\ resp' = Response(route, sessionId, ctx, out, ctx.deleteCookie, NoCookie)
        /\ UNCHANGED toggles
        /\ UNCHANGED <<clock, users, issued, revoked, last, ticks>>
        /\ UNCHANGED <<hashVars, accVars, calVars>>

\* a request to a route behind requireAuth
HabitRequest(route, sessionId, q) ==
    HabitRequestWithin(HabitIds, route, sessionId, q)

\* the parameters of a request to a habit route: the :id of the path, the
\* name of the form, the ?date= of the query, the JSON body
Params(habitId, name, dateParam, body) ==
    [habitId |-> habitId, name |-> name, dateParam |-> dateParam, body |-> body]

NoBody == [kind |-> "badJson", order |-> <<>>]

GetDashboard(sessionId) ==
    HabitRequest("GET /", sessionId,
                 Params(0, "", <<>>, NoBody))

PostHabits(sessionId, name) ==
    HabitRequest("POST /habits", sessionId,
                 Params(0, name, <<>>, NoBody))

PostReorder(sessionId, body) ==
    HabitRequest("POST /habits/reorder", sessionId,
                 Params(0, "", <<>>, body))

PostToggle(sessionId, habitId, dateParam) ==
    HabitRequest("POST /habits/:id/toggle", sessionId,
                 Params(habitId, "", dateParam, NoBody))

GetCalendarPartial(sessionId, habitId) ==
    HabitRequest("GET /habits/:id/calendar/partial", sessionId,
                 Params(habitId, "", <<>>, NoBody))

GetCalendar(sessionId, habitId) ==
    HabitRequest("GET /habits/:id/calendar", sessionId,
                 Params(habitId, "", <<>>, NoBody))

GetCard(sessionId, habitId) ==
    HabitRequest("GET /habits/:id/card", sessionId,
                 Params(habitId, "", <<>>, NoBody))

GetEdit(sessionId, habitId) ==
    HabitRequest("GET /habits/:id/edit", sessionId,
                 Params(habitId, "", <<>>, NoBody))

PostRename(sessionId, habitId, newName) ==
    HabitRequest("POST /habits/:id/rename", sessionId,
                 Params(habitId, newName, <<>>, NoBody))

PostDelete(sessionId, habitId) ==
    HabitRequest("POST /habits/:id/delete", sessionId,
                 Params(habitId, "", <<>>, NoBody))

\* GET /login
GetLogin(sessionId) ==
    LET ctx == AuthMiddleware(sessionId)
        out == IF ctx.user # Null THEN Same(302, "/", "", {})
               ELSE Same(200, "", "login form", {})
    IN  /\ resp = NoRequest
        /\ sessions' = SessionsAfterLookup(sessionId)
        /\ resp' = Response("GET /login", sessionId, ctx, out, ctx.deleteCookie,
                            NoCookie)
        /\ UNCHANGED <<clock, users, issued, revoked, last, ticks>>
        /\ UNCHANGED <<habits, habit_logs, nextHabitId, toggles>>
        /\ UNCHANGED <<hashVars, accVars, calVars>>

\* SELECT * FROM users WHERE username = ?
UsersNamed(username) == {u \in DOMAIN users : users[u].username = username}

\* a login that takes any row of users for the submitted username as proof
LoginOutcome_NoPasswordCheck(username, password) ==
    IF UsersNamed(username) = {} THEN "no user" ELSE "valid"

\* POST /login up to the decision: no row for the username, the password
\* does not verify, verifyPassword throws, or the credentials are valid
LoginOutcome(username, password) ==
    LET found == UsersNamed(username)
    IN  IF found = {} THEN "no user"
        ELSE LET user == users[CHOOSE u \in found : TRUE]
                 valid == verifyPassword(password, user.password_hash)
             IN  IF valid = "TypeError" THEN "throws"
                 ELSE IF valid = "false" THEN "invalid"
                 ELSE "valid"

\* POST /login when no row of users has the username: the login page with
\* its error box
NoUserResponse ==
    Same(200, "", "Invalid username or password", {"SELECT users"})

\* an answer to a wrong password that names the factor that failed
WrongPasswordResponse_NamesFactor ==
    Same(200, "", "Wrong password", {"SELECT users"})

\* POST /login when verifyPassword returned false: the login page with its
\* error box
WrongPasswordResponse ==
    Same(200, "", "Invalid username or password", {"SELECT users"})

\* POST /login
PostLogin(sessionId, username, password) ==
    LET ctx == AuthMiddleware(sessionId)
        outcome == LoginOutcome(username, password)
    IN  /\ resp = NoRequest
        /\ IF outcome = "valid"
           THEN \E t \in generateSessionId :
                  LET userId == CHOOSE u \in UsersNamed(username) : TRUE
                      after == SessionsAfterLookup(sessionId)
                  IN  /\ sessions' = [x \in DOMAIN after \cup {t} |->
                                        IF x = t THEN NewSessionRow(userId)
                                        ELSE after[x]]
                      /\ issued' = Append(issued, [token |-> t, at |-> clock,
                                           user |-> userId])
                      /\ resp' = [Response("POST /login", sessionId, ctx,
                                     Same(302, "/", "", {"SELECT users", "INSERT sessions"}),
                                     ctx.deleteCookie, t)
                                     EXCEPT !.username = username,
                                            !.password = password]
           ELSE /\ sessions' = SessionsAfterLookup(sessionId)
                /\ issued' = issued
                /\ resp' = [Response("POST /login", sessionId, ctx,
                              IF outcome = "throws"
                              THEN Same(500, "", "Internal Server Error", {"SELECT users"})
                              ELSE IF outcome = "no user" THEN NoUserResponse
                              ELSE WrongPasswordResponse,
                              ctx.deleteCookie, NoCookie)
                              EXCEPT !.username = username, !.password = password]
        /\ UNCHANGED <<clock, users, revoked, last, ticks>>
        /\ UNCHANGED <<habits, habit_logs, nextHabitId, toggles>>
        /\ UNCHANGED <<hashVars, accVars, calVars>>

\* a logout that clears the cookie and leaves the row in the table
PostLogout_KeepsRow(sessionId) ==
    LET ctx == AuthMiddleware(sessionId)
    IN  /\ resp = NoRequest
        /\ sessions' = SessionsAfterLookup(sessionId)
        /\ revoked' = IF ctx.session # Null THEN revoked \cup {ctx.session.id}
                      ELSE revoked
        /\ resp' = Response("POST /logout", sessionId, ctx,
                            Same(302, "/login", "", {}), TRUE, NoCookie)
        /\ UNCHANGED <<clock, users, issued, last, ticks>>
        /\ UNCHANGED <<habits, habit_logs, nextHabitId, toggles>>
        /\ UNCHANGED <<hashVars, accVars, calVars>>

\* POST /logout
PostLogout(sessionId) ==
    LET ctx == AuthMiddleware(sessionId)
        after == SessionsAfterLookup(sessionId)
    IN  /\ resp = NoRequest
        /\ IF ctx.session # Null
           THEN /\ sessions' = [x \in DOMAIN after \ {ctx.session.id} |-> after[x]]
                /\ revoked' = revoked \cup {ctx.session.id}
                /\ resp' = Response("POST /logout", sessionId, ctx,
                                    Same(302, "/login", "", {"DELETE sessions"}),
                                    TRUE, NoCookie)
           ELSE /\ sessions' = after
                /\ revoked' = revoked
                /\ resp' = Response("POST /logout", sessionId, ctx,
                                    Same(302, "/login", "", {}), TRUE, NoCookie)
        /\ UNCHANGED <<clock, users, issued, last, ticks>>
        /\ UNCHANGED <<habits, habit_logs, nextHabitId, toggles>>
        /\ UNCHANGED <<hashVars, accVars, calVars>>

(***************************************************************************)
(* POST /habits/:id/toggle, one database statement at a time.              *)
(***************************************************************************)
ToggleIds == {"t1", "t2"}

\* no toggle request in this slot
IdleToggle ==
    [pc |-> "idle", user |-> 0, existing |-> FALSE, status |-> 0,
     before |-> {}, first |-> FALSE]

\* the habit and the date both requests toggle: habit 1, today
ToggleRow == [habit_id |-> 1, date |-> Today]

\* the other of the two requests
OtherToggle(r) == CHOOSE o \in ToggleIds : o # r

\* a toggle request arrives with a session cookie that resolves to the
\* owner of the habit: the middleware, requireAuth and the ownership SELECT
\* pass.  `before` keeps the habit_logs table as the request found it and
\* `first` tells whether no other toggle was in progress then.
ToggleBegin(r, sessionId) ==
    LET ctx == AuthMiddleware(sessionId)
    IN  /\ toggles[r].pc = "idle"
        /\ requireAuth(ctx)
        /\ OwnHabit(ctx.user, ToggleRow.habit_id)
        /\ toggles' = [toggles EXCEPT ![r] =
                          [IdleToggle EXCEPT !.pc = "check", !.user = ctx.user.id,
                                             !.before = habit_logs,
                                             !.first = (toggles[OtherToggle(r)].pc
                                                          = "idle")]]
        /\ UNCHANGED <<habits, habit_logs, nextHabitId, resp>>
        /\ UNCHANGED <<sessVars, hashVars, accVars, calVars>>

\* SELECT * FROM habit_logs WHERE habit_id = ? AND date = ?
ToggleCheck(r) ==
    /\ toggles[r].pc = "check"
    /\ toggles' = [toggles EXCEPT ![r].pc = "write",
                                  ![r].existing = (ToggleRow \in habit_logs)]
    /\ UNCHANGED <<habits, habit_logs, nextHabitId, resp>>
    /\ UNCHANGED <<sessVars, hashVars, accVars, calVars>>

\* if (existing) DELETE FROM habit_logs ... else INSERT INTO habit_logs ...;
\* an INSERT of a row that is there violates UNIQUE(habit_id, date), the
\* statement throws and the request is answered 500
ToggleWrite(r) ==
    /\ toggles[r].pc = "write"
    /\ IF toggles[r].existing
       THEN /\ habit_logs' = habit_logs \ {ToggleRow}
            /\ toggles' = [toggles EXCEPT ![r].pc = "done", ![r].status = 200]
       ELSE IF ToggleRow \in habit_logs
       THEN /\ habit_logs' = habit_logs
            /\ toggles' = [toggles EXCEPT ![r].pc = "done", ![r].status = 500]
       ELSE /\ habit_logs' = habit_logs \cup {ToggleRow}
            /\ toggles' = [toggles EXCEPT ![r].pc = "done", ![r].status = 200]
    /\ UNCHANGED <<habits, nextHabitId, resp>>
    /\ UNCHANGED <<sessVars, hashVars, accVars, calVars>>

\* both requests have been answered
ToggleEnd ==
    /\ \A r \in ToggleIds : toggles[r].pc = "done"
    /\ toggles' = [r \in ToggleIds |-> IdleToggle]
    /\ UNCHANGED <<habits, habit_logs, nextHabitId, resp>>
    /\ UNCHANGED <<sessVars, hashVars, accVars, calVars>>

\* the client has the response; the next request can be sent
Deliver ==
    /\ resp # NoRequest
    /\ resp' = NoRequest
    /\ UNCHANGED <<habits, habit_logs, nextHabitId, toggles>>
    /\ UNCHANGED <<sessVars, hashVars, accVars, calVars>>

\* the clock advance offered between requests: twenty days, so that a
\* session is used in the middle of its life and is expired two advances
\* after its creation
AppSteps == {20 * 24 * 3600}

AppInit ==
    /\ habits = <<>>
    /\ habit_logs = {}
    /\ nextHabitId = 1
    /\ resp = NoRequest
    /\ toggles = [r \in ToggleIds |-> IdleToggle]

AppNext ==
    \/ \E ck \in Cookies : GetLogin(ck)
    \/ \E ck \in Cookies, u \in Usernames, p \in LoginPasswords : PostLogin(ck, u, p)
    \/ \E ck \in Cookies : PostLogout(ck)
    \/ \E ck \in Cookies : GetDashboard(ck)
    \/ \E ck \in Cookies, n \in NewHabitNames : PostHabits(ck, n)
    \/ \E ck \in Cookies, b \in ReorderBodies : PostReorder(ck, b)
    \/ \E ck \in Cookies, h \in HabitParams, d \in DateParams : PostToggle(ck, h, d)
    \/ \E ck \in Cookies, h \in HabitParams : GetCalendarPartial(ck, h)
    \/ \E ck \in Cookies, h \in HabitParams : GetCalendar(ck, h)
    \/ \E ck \in Cookies, h \in HabitParams : GetCard(ck, h)
    \/ \E ck \in Cookies, h \in HabitParams : GetEdit(ck, h)
    \/ \E ck \in Cookies, h \in HabitParams, n \in HabitNames : PostRename(ck, h, n)
    \/ \E ck \in Cookies, h \in HabitParams : PostDelete(ck, h)
    \/ Deliver
    \/ \E d \in AppSteps : Advance(d)

(***************************************************************************)
(* Two users at work on their habits.                                      *)
(***************************************************************************)
\* the habits of the two users: ids 1 and 2
IsoHabitIds == {1, 2}

\* the two users who log in, with their passwords
IsoLogins == {<<"alice", "correcthorse123">>, <<"bob", "wrongpass">>}

\* the orders posted to /habits/reorder: the ids of both habits, either way
\* round, and each alone
IsoOrders == {<<1>>, <<2>>, <<1, 2>>, <<2, 1>>}

\* the two users log in and create, reorder, toggle, rename and delete
\* habits, naming their own and each other's ids
IsoNext ==
    \/ \E l \in IsoLogins : PostLogin(NoCookie, l[1], l[2])
    \/ \E ck \in Tokens :
          HabitRequestWithin(IsoHabitIds, "POST /habits", ck,
                             Params(0, "run", <<>>, NoBody))
    \/ \E ck \in Tokens, o \in IsoOrders :
          HabitRequestWithin(IsoHabitIds, "POST /habits/reorder", ck,
                             Params(0, "", <<>>, [kind |-> "array", order |-> o]))
    \/ \E ck \in Tokens, h \in IsoHabitIds :
          HabitRequestWithin(IsoHabitIds, "POST /habits/:id/toggle", ck,
                             Params(h, "", <<>>, NoBody))
    \/ \E ck \in Tokens, h \in IsoHabitIds :
          HabitRequestWithin(IsoHabitIds, "POST /habits/:id/rename", ck,
                             Params(h, "read", <<>>, NoBody))
    \/ \E ck \in Tokens, h \in IsoHabitIds :
          HabitRequestWithin(IsoHabitIds, "POST /habits/:id/delete", ck,
                             Params(h, "", <<>>, NoBody))
    \/ Deliver

\* a user logs in, creates a habit, and sends pairs of toggle requests for
\* it that the worker serves concurrently
RaceNext ==
    \/ PostLogin(NoCookie, "alice", "correcthorse123")
    \/ \E ck \in Tokens : PostHabits(ck, "run")
    \/ Deliver
    \/ \E r \in ToggleIds, ck \in Tokens : ToggleBegin(r, ck)
    \/ \E r \in ToggleIds : ToggleCheck(r)
    \/ \E r \in ToggleIds : ToggleWrite(r)
    \/ ToggleEnd

(***************************************************************************)
(* The calendar of a habit (index.tsx, utils/date.ts).                     *)
(***************************************************************************)
\* String(n) of an integer
RECURSIVE DecimalText(_)
DecimalText(n) ==
    IF n < 0 THEN <<"-">> \o DecimalText(0 - n)
    ELSE IF n < 10 THEN <<Digits[n + 1]>>
    ELSE DecimalText(n \div 10) \o <<Digits[(n % 10) + 1]>>

\* String(n).padStart(2, "0")
PadStart2(n) ==
    IF Len(DecimalText(n)) >= 2 THEN DecimalText(n) ELSE <<"0">> \o DecimalText(n)

\* days from 1970-01-01 to the civil date y-m-d (m from 1)
DaysFromCivil(y, m, d) ==
    LET yy == IF m <= 2 THEN y - 1 ELSE y
        era == yy \div 400
        yoe == yy - era * 400
        mp == IF m > 2 THEN m - 3 ELSE m + 9
        doy == (153 * mp + 2) \div 5 + d - 1
        doe == yoe * 365 + yoe \div 4 - yoe \div 100 + doy
    IN  era * 146097 + doe - 719468

\* the year new Date(year, month, day) takes for its year argument: 0..99
\* stand for 1900..1999
DateYear(year) == IF year >= 0 /\ year <= 99 THEN 1900 + year ELSE year

\* new Date(year, month, day) as days from 1970-01-01; month counts from 0,
\* month 12 is January of the next year, and day 0 is the last day of the
\* month before
NewDate(year, month, day) ==
    LET y == DateYear(year) + month \div 12
        m == month % 12
    IN  DaysFromCivil(y, m + 1, 1) + day - 1

\* Date.prototype.getDate and getDay
GetDate(days) == CivilFromDays(days).day
GetDay(days) == (days + 4) % 7

\* `${year}-${pad2(month)}-${pad2(day)}`
YMD(year, month, day) ==
    DecimalText(year) \o <<"-">> \o PadStart2(month) \o <<"-">> \o PadStart2(day)

\* getMonthDays(year, month): the 42 cells of the calendar grid
getMonthDays(year, month) ==
    LET daysInMonth == GetDate(NewDate(year, month + 1, 0))
        startDayOfWeek == GetDay(NewDate(year, month, 1))
        prevMonthLastDay == GetDate(NewDate(year, month, 0))
        prevMonth == IF month = 0 THEN 11 ELSE month - 1
        prevYear == IF month = 0 THEN year - 1 ELSE year
        nextMonth == IF month = 11 THEN 0 ELSE month + 1
        nextYear == IF month = 11 THEN year + 1 ELSE year
        before == [k \in 1..startDayOfWeek |->
                     LET day == prevMonthLastDay - (startDayOfWeek - k)
                     IN  [date |-> YMD(prevYear, prevMonth + 1, day), day |-> day,
                          isCurrentMonth |-> FALSE]]
        current == [day \in 1..daysInMonth |->
                      [date |-> YMD(year, month + 1, day), day |-> day,
                       isCurrentMonth |-> TRUE]]
        remainingDays == 42 - (startDayOfWeek + daysInMonth)
        after == [day \in 1..remainingDays |->
                    [date |-> YMD(nextYear, nextMonth + 1, day), day |-> day,
                     isCurrentMonth |-> FALSE]]
    IN  before \o current \o after

\* a range that ends where the displayed month begins
CalendarRange_EndsAtMonthStart(year, month) ==
    [startDate |-> DecimalText(year) \o <<"-">> \o PadStart2(month)
                      \o <<"-", "0", "1">>,
     endDate |-> DecimalText(year) \o <<"-">> \o PadStart2(month + 1)
                    \o <<"-", "0", "1">>]

\* startDate and endDate of the calendar handlers, month counted from 0
CalendarRange(year, month) ==
    [startDate |-> DecimalText(year) \o <<"-">> \o PadStart2(month)
                      \o <<"-", "0", "1">>,
     endDate |-> DecimalText(year) \o <<"-">> \o PadStart2(month + 2)
                    \o <<"-", "0", "1">>]

\* WHERE date >= startDate AND date < endDate, on TEXT
InRange(date, range) == ~StrLess(date, range.startDate) /\ StrLess(date, range.endDate)

\* the years of the model: leap and common years, a century that is not a
\* leap year, years of three and of five digits, and years that Date reads
\* as 19xx
CalendarYears == {0, 99, 999, 1900, 2000, 2023, 2024, 2025, 9999, 10000}

\* the month index of the handlers: 0 is January
CalendarMonths == 0..11

NoCalendar == [year |-> 0, month |-> -1, range |-> CalendarRange(0, 0), days |-> <<>>]

\* GET /habits/:id/calendar (and /calendar/partial) for ?month=year-(month+1)
ShowCalendar(year, month) ==
    /\ cal' = [year |-> year, month |-> month, range |-> CalendarRange(year, month),
               days |-> getMonthDays(year, month)]
    /\ UNCHANGED <<sessVars, hashVars, accVars, appVars>>

CalInit == cal = NoCalendar

CalNext == \E year \in CalendarYears, month \in CalendarMonths : ShowCalendar(year, month)

(***************************************************************************)
(* Specifications.                                                         *)
(***************************************************************************)
\* the rows of table users at start: one identity with a PBKDF2 credential,
\* one with a legacy digest, one with the empty credential representation
InitUsers ==
    [id \in {1, 2, 3} |->
        IF id = 1
        THEN [username |-> "alice",
              password_hash |-> hashPassword("correcthorse123",
                                             [i \in 1..SALT_LENGTH |-> 9])]
        ELSE IF id = 2
        THEN [username |-> "bob",
              password_hash |-> legacyHashPassword("wrongpass")]
        ELSE [username |-> "carol", password_hash |-> <<>>]]

SessInit ==
    /\ clock = StartTime
    /\ users = InitUsers
    /\ sessions = <<>>
    /\ issued = <<>>
    /\ revoked = {}
    /\ last = [op |-> "none", token |-> 0, result |-> "void"]
    /\ ticks = 0

SessNext ==
    \/ \E u \in DOMAIN users : CreateSession(u)
    \/ \E t \in Tokens : GetSession(t)
    \/ \E t \in Tokens : DeleteSession(t)
    \/ CleanupExpiredSessions
    \/ \E d \in Steps : Advance(d)

vars == <<sessVars, hashVars, accVars, appVars, calVars>>

Init == SessInit /\ HashInit /\ AccInit /\ AppInit /\ CalInit

SessionSpec == Init /\ [][SessNext]_vars

HasherSpec == Init /\ [][HashNext]_vars

AccessSpec == Init /\ [][AccessNext]_vars

ConcSpec == Init /\ [][ConcNext]_vars

AppSpec == Init /\ [][AppNext]_vars

IsoSpec == Init /\ [][IsoNext]_vars

RaceSpec == Init /\ [][RaceNext]_vars

ProvisionSpec == Init /\ [][ProvisionNext]_vars

CalendarSpec == Init /\ [][CalNext]_vars

(***************************************************************************)
(* Claims about the assertion validator.                                   *)
(***************************************************************************)
\* the call has run the signature and payload checks
Verified(k) == k.checkedAt > 0

\* C4: a call returns a non-null value only if the token had three
\* decodable segments, alg RS256, a key with the header's kid was found in
\* the key set used, the signature verified with that key, iss, aud and exp
\* passed; and the value returned is payload.email.
C4_AcceptOnlyIfAllChecksPass ==
    \A c \in CallIds :
        LET k == calls[c]
        IN  (k.pc = "done" /\ k.result # "null") =>
                /\ k.token.segments = 3
                /\ k.token.decodable
                /\ k.token.alg = "RS256"
                /\ k.keys \in {k.first.keys, k.second.keys}
                /\ k.key \in k.keys
                /\ k.key.kid = k.token.kid
                /\ k.token.sigBy = k.key.n
                /\ k.token.iss = ExpectedIssuer
                /\ \E i \in 1..Len(k.token.aud) : k.token.aud[i] = ConfiguredAud
                /\ k.token.exp >= k.checkedAt
                /\ Verified(k)
                /\ k.result = k.token.email

\* C4 witness: a call has returned an email
C4_Witness ==
    \E c \in CallIds : calls[c].pc = "done" /\ calls[c].result = "user@example.com"

\* steps that remain, at most, before the call returns
Rank(k) ==
    CASE k.pc = "fetch" /\ ~k.forced -> 3
      [] k.pc = "fetch" /\ k.forced -> 2
      [] k.pc = "verify" -> 1
      [] OTHER -> 0

C5_Counts ==
    \A c \in CallIds :
        LET k == calls[c]
            kidIn(ks) == FindKey(ks.keys, k.token.kid) # {}
        IN  /\ k.refetches <= 1
            /\ k.fetches <= 2
            /\ k.first.isNull => k.refetches = 0
            /\ ~k.first.isNull => (k.refetches = 1 <=> ~kidIn(k.first))
            /\ ~k.second.isNull =>
                  IF kidIn(k.second)
                  THEN /\ k.pc \in {"verify", "done"}
                       /\ k.key \in k.second.keys
                       /\ k.pc = "done" => (Verified(k) \/ k.thrown = "crypto")
                  ELSE k.pc = "done" /\ k.result = "null" /\ ~Verified(k)
            /\ k.pc \in {"fetch", "verify"} =>
                  ENABLED (FetchDone(c, TRUE) \/ Verify(c))

\* (a step of the call itself: a rotation at the issuer only marks the call)
C5_RankDecreases ==
    [][\A c \in CallIds :
          (/\ calls[c].pc \in {"fetch", "verify"}
           /\ calls'[c] # calls[c]
           /\ published' = published)
             => Rank(calls'[c]) < Rank(calls[c])]_vars

\* C5: when the kid is absent from the key set the first getPublicKeys
\* returned, exactly one forced refetch follows and the lookup is retried
\* once: the call goes on to verify if the kid is in the refetched set and
\* returns null if not.  No call refetches twice or fetches more than twice,
\* and every call in progress has a step to take and fewer steps left after
\* each one.
C5_OneForcedRefetch == []C5_Counts /\ C5_RankDecreases

\* C5 witness: a kid absent from the first key set was found after the one
\* forced refetch and the call returned the email
C5_Witness ==
    \E c \in CallIds :
        /\ calls[c].pc = "done"
        /\ ~calls[c].first.isNull
        /\ FindKey(calls[c].first.keys, calls[c].token.kid) = {}
        /\ calls[c].refetches = 1
        /\ calls[c].result = "user@example.com"

C6_State ==
    \A c \in CallIds :
        LET k == calls[c]
        IN  (k.pc # "idle" /\ Decodes(k.token) /\ k.token.alg # "RS256") =>
                /\ k.pc = "done"
                /\ k.result = "null"
                /\ k.gets = 0
                /\ k.fetches = 0

C6_Step ==
    [][\A c \in CallIds :
          (/\ calls[c].pc = "idle"
           /\ calls'[c].pc # "idle"
           /\ Decodes(calls'[c].token)
           /\ calls'[c].token.alg # "RS256")
             => /\ cachedKeys' = cachedKeys
                /\ cacheExpiry' = cacheExpiry
                /\ calls'[c].pc = "done"]_vars

\* C6: a token whose alg is not RS256 is rejected before the key cache is
\* read or a fetch is issued: the call ends at once with null, having never
\* called getPublicKeys, and leaves cachedKeys and cacheExpiry as they were.
C6_AlgRejectedBeforeKeys == []C6_State /\ C6_Step

\* C6 witness: an HS256 token was rejected while a key set was cached
C6_Witness ==
    \E c \in CallIds :
        /\ calls[c].pc = "done"
        /\ Decodes(calls[c].token)
        /\ calls[c].token.alg = "HS256"
        /\ ~cachedKeys.isNull

\* C7: every assertion whose exp is not strictly later than the current time
\* in seconds is rejected, exp equal to now included, even when signature,
\* issuer and audience are valid.
C7_ExpMustBeStrictlyFuture ==
    \A c \in CallIds :
        LET k == calls[c]
        IN  (k.pc = "done" /\ Verified(k) /\ k.token.exp <= k.checkedAt)
                => k.result = "null"

(***************************************************************************)
(* Claims about the credential hasher.                                     *)
(***************************************************************************)
AllHex(s) == \A i \in 1..Len(s) : IsHex(s[i])

\* a bare 64-character digest
BareDigest(s) == Len(Split(s, ":")) = 1 /\ Len(s) = 64

\* a well-formed saltHex:hashHex pair
SaltHashPair(s) ==
    LET parts == Split(s, ":")
    IN  /\ Len(parts) = 2
        /\ Len(parts[1]) > 0 /\ Len(parts[1]) % 2 = 0 /\ AllHex(parts[1])
        /\ Len(parts[2]) = 2 * HASH_LENGTH /\ AllHex(parts[2])

\* C8: for every stored text that is neither a bare 64-character digest nor
\* a well-formed saltHex:hashHex pair, verifyPassword returns false and does
\* not throw.
C8_MalformedFailsClosed ==
    (verdict.op = "verifyPassword" /\ ~BareDigest(stored) /\ ~SaltHashPair(stored))
        => verdict.result = "false"

\* C9: verifyPassword(s', hashPassword(s)) is true when s' = s and false
\* when s' differs from s, whatever salt hashPassword drew.
C9_HashVerifyRoundTrip ==
    (storedBy.kind = "pbkdf2" /\ verdict.op = "verifyPassword")
        => verdict.result = BoolText(verdict.password = storedBy.password)

\* C9 witness: the secret that was hashed has been verified against the
\* credential, whose salt has a byte below 16
C9_Witness ==
    /\ storedBy.kind = "pbkdf2"
    /\ verdict.op = "verifyPassword"
    /\ verdict.password = storedBy.password
    /\ verdict.result = "true"
    /\ stored[1] = "0"

C10_State ==
    /\ (storedBy.kind \in {"legacy", "pbkdf2"} /\ verdict.op = "verifyPassword")
          => verdict.result = BoolText(verdict.password = storedBy.password)
    /\ storedBy.kind = "legacy" => BareDigest(stored) /\ AllHex(stored)
    /\ storedBy.kind = "pbkdf2" =>
          /\ SaltHashPair(stored)
          /\ Len(Split(stored, ":")[1]) = 2 * SALT_LENGTH

\* only a verifyPassword step leaves a verdict
C10_VerifyWritesNothing ==
    [][verdict'.op = "verifyPassword" => stored' = stored]_vars

\* C10: a stored bare 64-hex SHA-256 digest of s verifies true for s and
\* false for any other secret, a stored salt:derivedKey value verifies by
\* re-derivation, verification leaves the stored value as it is, and
\* hashPassword only produces the salt:derivedKey format.
C10_BothFormatsNoMigration == []C10_State /\ C10_VerifyWritesNothing

\* C10 witness: a legacy digest has verified its secret
C10_Witness ==
    /\ storedBy.kind = "legacy"
    /\ verdict.op = "verifyPassword"
    /\ verdict.result = "true"

(***************************************************************************)
(* Claims about the HTTP application.                                      *)
(***************************************************************************)
HabitRoutes ==
    {"GET /", "POST /habits", "POST /habits/reorder", "POST /habits/:id/toggle",
     "GET /habits/:id/calendar/partial", "GET /habits/:id/calendar",
     "GET /habits/:id/card", "GET /habits/:id/edit", "POST /habits/:id/rename",
     "POST /habits/:id/delete"}

\* the rows of users whose stored credential representation is empty
EmptyCredentialUsers == {u \in DOMAIN users : users[u].password_hash = <<>>}

\* C11: verifyPassword(p, "") is false for every password p, no session
\* row belongs to an identity whose stored credential is the empty string,
\* and a POST /login that names such an identity sets no session cookie.
C11_EmptyCredentialNeverLogsIn ==
    /\ \A p \in PasswordSet : verifyPassword(p, <<>>) = "false"
    /\ \A t \in DOMAIN sessions : sessions[t].user_id \notin EmptyCredentialUsers
    /\ (resp.route = "POST /login"
          /\ UsersNamed(resp.username) \cap EmptyCredentialUsers # {})
         => (resp.setCookie = NoCookie /\ "INSERT sessions" \notin resp.ops)

\* C11 witness: a login was attempted for the identity with the empty
\* credential
C11_Witness ==
    /\ resp.route = "POST /login"
    /\ resp.username = "carol"
    /\ resp.password = "correcthorse123"
    /\ resp.body = "Invalid username or password"

\* the submitted credentials name a row of users and verify against its
\* password_hash
CredentialsValid(username, password) ==
    \E u \in UsersNamed(username) :
        verifyPassword(password, users[u].password_hash) = "true"

C12_State ==
    resp.route = "POST /login" =>
        IF CredentialsValid(resp.username, resp.password)
        THEN /\ resp.setCookie \in DOMAIN sessions
             /\ sessions[resp.setCookie].user_id \in UsersNamed(resp.username)
        ELSE /\ resp.setCookie = NoCookie
             /\ "INSERT sessions" \notin resp.ops

C12_Step ==
    [][(DOMAIN sessions' \ DOMAIN sessions # {}) =>
          /\ resp'.route = "POST /login"
          /\ CredentialsValid(resp'.username, resp'.password)
          /\ DOMAIN sessions' \ DOMAIN sessions = {resp'.setCookie}
          /\ issued' # issued]_vars

C12_FailedLoginStep ==
    [][(resp'.route = "POST /login" /\ resp = NoRequest
          /\ ~CredentialsValid(resp'.username, resp'.password))
          => (sessions' = sessions /\ issued' = issued)]_vars

\* C12: a row of sessions appears only in a POST /login whose username
\* names a row of users and whose password verifies against that row; a
\* login with an unknown username or a wrong password leaves the table as
\* it was and sets no session cookie.
C12_SessionOnlyByValidLogin == []C12_State /\ C12_Step /\ C12_FailedLoginStep

\* C12 witness: a login with valid credentials was answered
C12_Witness ==
    /\ resp.route = "POST /login"
    /\ resp.setCookie # NoCookie
    /\ resp.status = 302

C13_State ==
    (resp.route \in HabitRoutes /\ resp.user = 0) =>
        /\ resp.status = 302
        /\ resp.location = "/login"
        /\ resp.ops = {}

C13_Step ==
    [][(resp'.route \in HabitRoutes /\ resp = NoRequest /\ resp'.user = 0)
          => (habits' = habits /\ habit_logs' = habit_logs
                /\ nextHabitId' = nextHabitId)]_vars

\* C13: a request to a habit route that the middleware resolved to
\* user = null is answered by a redirect to /login, runs no statement on
\* habits or habit_logs and leaves both tables as they were.
C13_HabitRoutesRequireAuth == []C13_State /\ C13_Step

\* C13 witness: a delete of an existing habit was requested with a cookie
\* that did not resolve
C13_Witness ==
    /\ resp.route = "POST /habits/:id/delete"
    /\ resp.cookie # NoCookie
    /\ resp.user = 0
    /\ habits # <<>>

\* C14: a request whose cookie does not resolve continues with user and
\* session null and has the cookie cleared; a request without a cookie
\* continues with user and session null; user is non-null only when
\* getSession returned a row, and then it is that row's user.
C14_MiddlewareSessionPath ==
    [][(resp = NoRequest /\ resp' # NoRequest) =>
          LET result == getSession(resp'.cookie)
          IN  /\ (resp'.cookie # NoCookie /\ result = Null) =>
                    /\ resp'.user = 0
                    /\ resp'.session = NoCookie
                    /\ resp'.deleteCookie
              /\ resp'.cookie = NoCookie =>
                    (resp'.user = 0 /\ resp'.session = NoCookie)
              /\ resp'.user # 0 =>
                    /\ resp'.cookie # NoCookie
                    /\ result # Null
                    /\ resp'.user = result.user.id
                    /\ resp'.session = resp'.cookie]_vars

\* C14 witness: a request carried the token of a session that is stored but
\* expired, and got the cookie cleared
C14_Witness ==
    /\ resp.cookie \in DOMAIN sessions
    /\ resp.user = 0
    /\ resp.deleteCookie
    /\ resp.route = "GET /"

C17_RowsNeverChange ==
    [][\A t \in DOMAIN sessions \cap DOMAIN sessions' :
          sessions'[t] = sessions[t]]_vars

C17_LookupWritesNothing ==
    [][(resp = NoRequest /\ resp'.route \notin {"none", "POST /login", "POST /logout"})
          => sessions' = sessions]_vars

C17_ExpiryIsCreationPlusTTL ==
    \A t \in DOMAIN sessions :
        sessions[t].expires_at = ToISOString(IssuedAt(t) + SESSION_TTL)

\* C17: a stored session row is never modified; a request other than a
\* login or a logout leaves table sessions as it was; expires_at of every
\* stored row is its creation time plus thirty days.
C17_NoSlidingExpiry ==
    []C17_ExpiryIsCreationPlusTTL /\ C17_RowsNeverChange /\ C17_LookupWritesNothing

\* C17 witness: a session was used by a request some time after it was
\* created
C17_Witness ==
    /\ resp.route \in HabitRoutes
    /\ resp.user # 0
    /\ resp.session \in DOMAIN sessions
    /\ clock > IssuedAt(resp.session)

(***************************************************************************)
(* Claims about the key cache.                                             *)
(***************************************************************************)
\* C18: a non-forced getPublicKeys call at clock t' is answered from the
\* cache, without a fetch, iff a fetch has completed and t' is before the
\* start of the call that made that fetch plus five minutes; it then
\* returns the key set of that fetch.  Otherwise (no entry, or t' at or
\* after start + 5 minutes) the call performs one fetch.
C18_TTLFromCallStart ==
    [][\A c \in CallIds :
          (calls[c].pc = "idle" /\ calls'[c].pc # "idle" /\ calls'[c].gets >= 1) =>
              LET served == ~calls'[c].first.isNull
                  fresh == ~lastFetch.none /\ clock < lastFetch.start + CACHE_TTL
              IN  /\ served <=> fresh
                  /\ served => /\ calls'[c].first.keys = lastFetch.keys
                               /\ calls'[c].fetches = calls'[c].refetches
                  /\ ~served => /\ calls'[c].pc = "fetch"
                                /\ calls'[c].fetches = 1
                                /\ ~calls'[c].forced]_vars

\* C18 witness: a call was answered from the cache some time after the
\* entry was fetched
C18_Witness ==
    \E c \in CallIds :
        /\ calls[c].pc = "verify"
        /\ calls[c].fetches = 0
        /\ ~calls[c].first.isNull
        /\ calls[c].now > lastFetch.start

\* what a call on assertion tok returns at clock now when it starts with an
\* empty cache and every fetch answers with the published key set
FreshResult(tok, now) ==
    IF ~Decodes(tok) \/ ~AlgAccepted(tok) THEN "null"
    ELSE LET found == FindKey(published, tok.kid)
         IN  IF found = {} THEN "null"
             ELSE Validated(CHOOSE k \in found : TRUE, tok, now)

\* C19: a call during which the issuer did not rotate its keys, no fetch
\* failed and the runtime's crypto raised no error returns what a call starting with an empty cache returns for the
\* same assertion and the same published key set.
C19_CacheIsAdvisory ==
    \A c \in CallIds :
        LET k == calls[c]
        IN  (k.pc = "done" /\ ~k.rotated /\ ~k.failed /\ k.thrown # "crypto") =>
                k.result = FreshResult(k.token, IF Verified(k) THEN k.checkedAt
                                                ELSE clock)

\* C20: the cache is empty until a fetch completes; from then on
\* cachedKeys is the whole key set of the fetch that completed last, one of
\* the sets the issuer published, and cacheExpiry is the start time of the
\* call that made that fetch plus five minutes.
C20_CacheIsOneFetch ==
    /\ cachedKeys.isNull <=> lastFetch.none
    /\ lastFetch.none => cacheExpiry = 0
    /\ ~lastFetch.none =>
          /\ cachedKeys.keys = lastFetch.keys
          /\ lastFetch.keys \in KeySets
          /\ cacheExpiry = lastFetch.start + CACHE_TTL

\* C20 witness: of two overlapping calls the one that started later got its
\* key set first, and the cache holds the fetch of the one that started
\* earlier
C20_Witness ==
    \E c, d \in CallIds :
        /\ c # d
        /\ lastFetch.by = c
        /\ calls[c].pc # "idle" /\ calls[c].refetches = 0
        /\ calls[d].pc # "idle" /\ calls[d].refetches = 0
        /\ calls[d].fetches = 1 /\ ~calls[d].first.isNull
        /\ calls[d].now > lastFetch.start

\* the email addresses a payload can carry
Emails == {tok.email : tok \in AllAssertions} \ {""}

C21_State ==
    \A c \in CallIds :
        calls[c].failed =>
            /\ calls[c].pc = "done"
            /\ calls[c].result = "null"
            /\ calls[c].thrown = "fetch"

C21_Step ==
    [][\A c \in CallIds :
          /\ (calls[c].pc = "fetch" /\ calls'[c].failed) =>
                /\ cachedKeys' = cachedKeys
                /\ cacheExpiry' = cacheExpiry
                /\ calls'[c].pc = "done"
                /\ calls'[c].result = "null"
                /\ calls'[c].fetches = calls[c].fetches
                /\ calls'[c].gets = calls[c].gets
          /\ (calls[c].failed /\ calls'[c] # calls[c] /\ published' = published) =>
                calls'[c] = IdleCall]_vars

\* C21: when a fetch of the key set fails inside a call, the call returns
\* null, cachedKeys and cacheExpiry are what they were before the failed
\* fetch, and the call attempts no further fetch: its only remaining step is
\* handing null to its caller.
C21_FailedFetchEndsCall == []C21_State /\ C21_Step

\* C21 witness: the forced refetch of a call failed while the cache held an
\* entry, and the entry is still there
C21_Witness ==
    \E c \in CallIds :
        /\ calls[c].failed
        /\ calls[c].refetches = 1
        /\ ~cachedKeys.isNull
        /\ cachedKeys.keys = calls[c].first.keys

\* C22: every call that has completed handed its caller an email string or
\* null, whatever was raised inside it: a token that does not decode, a
\* failed fetch, an error of key import or signature verification.
C22_NeverThrows ==
    \A c \in CallIds :
        /\ calls[c].pc = "done" => calls[c].result \in Emails \cup {"null"}
        /\ calls[c].thrown # "none" =>
              calls[c].pc = "done" /\ calls[c].result = "null"

\* C22 witness: a call in which the runtime's crypto raised an error has
\* completed
C22_Witness ==
    \E c \in CallIds :
        calls[c].pc = "done" /\ calls[c].thrown = "crypto"

\* C23: a call on an assertion whose iss is not the expected issuer, or
\* whose aud list is missing or lacks the configured audience, returns null,
\* whether or not its signature is valid.
C23_IssuerAndAudienceRequired ==
    \A c \in CallIds :
        LET k == calls[c]
        IN  (/\ k.pc = "done"
             /\ \/ k.token.iss # ExpectedIssuer
                \/ AudMissing(k.token)
                \/ \A i \in 1..Len(k.token.aud) : k.token.aud[i] # ConfiguredAud)
                => k.result = "null"

\* C23 witness: an assertion with a valid signature and a foreign audience
\* went through the payload checks and was rejected
C23_Witness ==
    \E c \in CallIds :
        LET k == calls[c]
        IN  /\ k.pc = "done" /\ Verified(k)
            /\ k.token.sigBy = k.key.n
            /\ k.token.iss = ExpectedIssuer
            /\ k.token.aud = <<"aud-other">>
            /\ k.result = "null"

(***************************************************************************)
(* Further claims about the session store.                                 *)
(***************************************************************************)
\* the user for whom token t was issued
IssuedTo(t) ==
    issued[CHOOSE i \in DOMAIN issued : issued[i].token = t].user

\* what getSession(t) returns at the current clock when only the
\* operations on t have run: t's own createSession and deleteSession
SoloGetSession(t) ==
    LET expires_at == ToISOString(IssuedAt(t) + SESSION_TTL)
    IN  IF /\ t \in IssuedTokens \ revoked
           /\ ExpiresAfterNow(expires_at, clock)
        THEN [session |-> [id |-> t, user_id |-> IssuedTo(t),
                           expires_at |-> expires_at],
              user |-> [id |-> IssuedTo(t),
                        username |-> users[IssuedTo(t)].username,
                        password_hash |-> users[IssuedTo(t)].password_hash]]
        ELSE Null

\* an operation on token a leaves the row of every other token, and all else
\* that getSession reads (the clock, table users), as it was
C24_Frame ==
    [][\A a \in Tokens :
          (\/ GetSession(a)
           \/ DeleteSession(a)
           \/ (\E u \in DOMAIN users : CreateSession(u)) /\ last'.token = a)
          => /\ clock' = clock
             /\ users' = users
             /\ \A b \in Tokens \ {a} :
                   /\ (b \in DOMAIN sessions') <=> (b \in DOMAIN sessions)
                   /\ b \in DOMAIN sessions => sessions'[b] = sessions[b]]_vars

C24_Solo ==
    /\ \A t \in Tokens : getSession(t) = SoloGetSession(t)
    /\ last.op = "createSession" => last.result \in IssuedTokens

\* C24: createSession, getSession and deleteSession on token A change
\* neither the stored row nor the lookup result of any other token B, and
\* under every interleaving with the operations on other tokens, the
\* outcomes of the operations on a token are those of its own operations
\* run alone.
C24_PerTokenIndependence == []C24_Solo /\ C24_Frame

\* C24 witness: two sessions were created, one has been deleted, and the
\* other still resolves
C24_Witness ==
    /\ last.op = "deleteSession"
    /\ last.token \in IssuedTokens
    /\ \E b \in IssuedTokens \ {last.token} : getSession(b) # Null

(***************************************************************************)
(* Further claims about the HTTP application.                              *)
(***************************************************************************)
\* C25: every answer of POST /login to an unknown username and every answer
\* to a known username with a wrong password is the same response: status
\* 200, the login page with 'Invalid username or password', no session
\* cookie set; the one part that varies, the clearing of a stale session
\* cookie, is decided by the request's cookie before the credentials are
\* read.
C25_LoginFailuresIndistinguishable ==
    (/\ resp.route = "POST /login"
     /\ LoginOutcome(resp.username, resp.password) \in {"no user", "invalid"})
       => /\ resp.status = 200
          /\ resp.location = ""
          /\ resp.body = "Invalid username or password"
          /\ resp.setCookie = NoCookie
          /\ resp.session = NoCookie => resp.deleteCookie = (resp.cookie # NoCookie)
          /\ resp.session # NoCookie => ~resp.deleteCookie

\* C25 witness: a known user has submitted a wrong password
C25_Witness ==
    /\ resp.route = "POST /login"
    /\ UsersNamed(resp.username) # {}
    /\ LoginOutcome(resp.username, resp.password) = "invalid"
    /\ resp.status = 200

\* a logout request is answered: with a cookie that resolved, the row of
\* that session is gone and every other row is as it was; with no cookie or
\* one that did not resolve, the table is as it was; either way the cookie
\* is cleared and the answer is the redirect to /login
C26_Step ==
    [][(resp = NoRequest /\ resp'.route = "POST /logout") =>
          /\ resp'.status = 302 /\ resp'.location = "/login"
          /\ resp'.deleteCookie /\ resp'.setCookie = NoCookie
          /\ IF resp'.cookie # NoCookie /\ getSession(resp'.cookie) # Null
             THEN /\ resp'.cookie \notin DOMAIN sessions'
                  /\ resp'.cookie \in revoked'
                  /\ DOMAIN sessions' = DOMAIN sessions \ {resp'.cookie}
                  /\ \A t \in DOMAIN sessions' : sessions'[t] = sessions[t]
             ELSE sessions' = sessions /\ revoked' = revoked]_vars

\* a token that was logged out has no row and does not resolve, and a
\* request that carries it runs unauthenticated
C26_State ==
    /\ \A t \in revoked : t \notin DOMAIN sessions /\ getSession(t) = Null
    /\ (resp.route \notin {"none", "POST /logout"} /\ resp.cookie \in revoked) =>
          resp.user = 0 /\ resp.session = NoCookie

\* C26: POST /logout with a cookie that resolves to a live session deletes
\* that session's row and clears the cookie, and every later request with
\* the same token is unauthenticated; POST /logout with no cookie or one
\* that does not resolve deletes no row and still redirects to /login.
C26_LogoutRevokes == []C26_State /\ C26_Step

\* C26 witness: a request carrying a token that was logged out earlier has
\* been answered
C26_Witness ==
    /\ resp.route \in HabitRoutes
    /\ resp.cookie \in revoked
    /\ resp.cookie \in IssuedTokens
    /\ resp.status = 302 /\ resp.location = "/login"

\* the habit_logs rows of habit h
LogsOf(logs, h) == {l \in logs : l.habit_id = h}

\* C27: a request answered for user A leaves every habit row of every other
\* user, and the habit_logs rows of those habits, exactly as they were, and
\* every habit row it inserts belongs to A, whatever habit id the request
\* names; a request answered for no user changes no row at all.
C27_UserIsolation ==
    [][(resp = NoRequest /\ resp'.route \in HabitRoutes) =>
          /\ \A h \in DOMAIN habits :
                habits[h].user_id # resp'.user =>
                    /\ h \in DOMAIN habits'
                    /\ habits'[h] = habits[h]
                    /\ LogsOf(habit_logs', h) = LogsOf(habit_logs, h)
          /\ \A h \in DOMAIN habits' \ DOMAIN habits :
                /\ habits'[h].user_id = resp'.user
                /\ resp'.user # 0
          /\ \A l \in habit_logs' \ habit_logs :
                /\ l.habit_id \in DOMAIN habits
                /\ habits[l.habit_id].user_id = resp'.user]_vars

\* C27 witness: both users have a habit, one of them completed, and a
\* toggle by a logged-in user naming a habit that exists was answered
\* 'Not found'
C27_Witness ==
    /\ resp.route = "POST /habits/:id/toggle"
    /\ resp.user # 0
    /\ resp.status = 404
    /\ DOMAIN habits = IsoHabitIds
    /\ \E h \in DOMAIN habits :
          habits[h].user_id # resp.user /\ LogsOf(habit_logs, h) # {}
    /\ \E h \in DOMAIN habits : habits[h].user_id = resp.user

\* the habit_logs table as the first request of a pair of toggles found it
OriginalLogs ==
    toggles[CHOOSE r \in ToggleIds : toggles[r].first].before

\* C28: when two toggle requests for the same habit and date have both been
\* answered, however their database statements interleaved, both were
\* answered without error, and the habit_logs table is what it was before
\* the pair, as after two toggles run one after the other.
C28_ConcurrentTogglesCancel ==
    (\A r \in ToggleIds : toggles[r].pc = "done") =>
        /\ \A r \in ToggleIds : toggles[r].status = 200
        /\ habit_logs = OriginalLogs

(***************************************************************************)
(* Claims about the provisioning script.                                   *)
(***************************************************************************)
\* C29: the script and the worker use the same salt length, iteration
\* count and derived length; a credential the script wrote for password p
\* is one the worker's hashPassword writes for p with the same salt (salt
\* hex, ':', hash hex, lowercase), and the worker's verifyPassword returns
\* true for p and false for every other password.
C29_ScriptCredentialVerifies ==
    /\ script_PBKDF2_ITERATIONS = PBKDF2_ITERATIONS
    /\ script_SALT_LENGTH = SALT_LENGTH
    /\ script_HASH_LENGTH = HASH_LENGTH
    /\ storedBy.kind = "script" =>
          /\ \E salt \in ScriptSalts : stored = hashPassword(storedBy.password, salt)
          /\ Len(stored) = 2 * SALT_LENGTH + 1 + 2 * HASH_LENGTH
          /\ verdict.op = "verifyPassword" =>
                verdict.result = BoolText(verdict.password = storedBy.password)

\* C29 witness: a credential of the script was verified with its password
C29_Witness ==
    /\ storedBy.kind = "script"
    /\ storedBy.password = "correcthorse123"
    /\ verdict.op = "verifyPassword"
    /\ verdict.password = storedBy.password
    /\ verdict.result = "true"

(***************************************************************************)
(* Claims about the calendar.                                              *)
(***************************************************************************)
\* C30: for every year and every month index 0..11, each date that
\* getMonthDays marks isCurrentMonth satisfies date >= startDate AND
\* date < endDate for the range of the calendar handlers, January and
\* December included.
C30_RangeCoversMonth ==
    \A i \in DOMAIN cal.days :
        cal.days[i].isCurrentMonth => InRange(cal.days[i].date, cal.range)

\* C30 witness: the calendar of a December is shown, with its 31 days, the
\* last of them inside the loaded range
C30_Witness ==
    /\ cal.month = 11
    /\ Len(cal.days) = 42
    /\ \E i \in DOMAIN cal.days :
          /\ cal.days[i].isCurrentMonth
          /\ cal.days[i].day = 31
          /\ cal.days[i].date = YMD(cal.year, 12, 31)
          /\ InRange(cal.days[i].date, cal.range)
====
